---- MODULE Spec2Model ----
(***************************************************************************)
(* Verification model of dynafed_storagestats: the configuration parser    *)
(* (dynafed_storagestats/configloader.py), the share factory, the DAV and  *)
(* Azure collectors (dav/helpers.py, xml.py, azure/helpers.py) and the     *)
(* dispatcher loop of ugrstoragestats.py.                                  *)
(*                                                                         *)
(* Text.  A dotted text such as "locplugin.s3.s3.priv_key" is the sequence *)
(* of its dot-free segments, <<"locplugin","s3","s3","priv_key">>; a share *)
(* ID is dotted text too ("a.b" is <<"a","b">>).  No segment used below is *)
(* a proper suffix of another, so a substring match of "<id>." in a key    *)
(* always starts and ends on segment borders and the segment-level split   *)
(* is the character-level one.  The text after the first colon of a        *)
(* setting line is a sequence of tokens, " " being white space.            *)
(***************************************************************************)
EXTENDS Integers, Sequences, FiniteSets, TLC

(***************************************************************************)
(* Bounds of the model.                                                    *)
(***************************************************************************)
MaxFiles == 2
MaxLines == 3     \* lines read in one run, over all files

(***************************************************************************)
(* Inputs: the lines a configuration file may hold.                        *)
(***************************************************************************)
IDs == { <<"s1">>, <<"s3">>, <<"a", "b">> }
SettingNames == { <<"x">>, <<"s3", "priv_key">> }
RawValues == { <<" ", "v1", " ">>, <<"v2", ":", "v1">> }
PluginPaths == { <<"usr", "lib64", "ugr", "libugrlocplugin_dav.so">>,
                 <<"libugrlocplugin_lfc.so">> }
URLs == { "davs://h1/p", "davs://h2/p" }

\* "glb.locplugin[]: <plugin-path> <id> <concurrency> <url>"
DeclLines ==
  { [kind |-> "decl", plugin |-> p, id |-> i, url |-> u] :
      p \in PluginPaths, i \in IDs, u \in URLs }

\* "locplugin.<target>.<name>:<raw value>", <target> a share ID or "*"
SettingLines ==
  { [kind |-> "setting", key |-> <<"locplugin">> \o t \o n, raw |-> r] :
      t \in IDs \cup { <<"*">> }, n \in SettingNames, r \in RawValues }

VARIABLES
  pc,                 \* where get_storage_shares is
  config_files,       \* number of files get_conf_files found
  _config_file,       \* the file being scanned (1-based position in the list)
  _line_number,       \* enumerate()'s index of the next line of that file
  _id,                \* the parser's _id; <<>> while it is unbound
  _storage_shares,    \* the ordered dict, as the sequence of its records
  _global_settings,   \* dict: setting name -> value
  raised,             \* the exception that ended the run, if any
  storage_share_objects,
  \* what the input said, recorded as it is read
  lines_read,         \* lines read so far from the file being scanned
  total_read,         \* lines read so far from all files
  declared,           \* the IDs declared so far
  last_declared,      \* the ID of the latest declaration; <<>> before any
  local_lines,        \* <<id, name>> -> value of the latest line locplugin.<id>.<name>
  global_lines,       \* name -> value of the latest line locplugin.*.<name>
  all_matched,        \* every setting line so far was "*" or for last_declared
  \* a collector call of dav/helpers.py or azure/helpers.py
  storage_share,      \* the share object handed to the collector
  requests_sent,      \* PROPFIND requests sent by the call
  reply,              \* the call made and what the endpoint answered
  trusted_by,         \* the trust stores under which the endpoint's certificate verifies
  \* the dispatcher loop of ugrstoragestats.py
  endpoints,          \* the list get_endpoints returned
  options,            \* the command line flags
  cursor,             \* position of the for loop in endpoints
  polled,             \* the positions on which get_storagestats was invoked, in order
  replies,            \* what each polled endpoint answered
  ugr_config,         \* the dict get_config returned, as the sequence of its records
  \* a call of convert_size_to_bytes
  size,               \* the text handed to it
  converted,          \* how the call ended
  \* get_storage_endpoints and format_StAR
  storage_shares_mask,  \* the mask handed to get_storage_endpoints
  storage_endpoints,    \* the list it returned
  star                  \* what format_StAR ended with

vars == << pc, config_files, _config_file, _line_number, _id, _storage_shares,
           _global_settings, raised, storage_share_objects, lines_read,
           total_read, declared, last_declared, local_lines, global_lines,
           all_matched, storage_share, requests_sent, reply, trusted_by, endpoints,
           options, cursor, polled, replies, ugr_config, size, converted,
           storage_shares_mask, storage_endpoints, star >>

loaderVars ==
  << config_files, _config_file, _line_number, _id, _storage_shares,
     _global_settings, storage_share_objects, lines_read, total_read, declared,
     last_declared, local_lines, global_lines, all_matched >>
collectVars == << storage_share, requests_sent, reply, trusted_by >>
parserVars == << size, converted >>
accountingVars == << storage_shares_mask, storage_endpoints, star >>
mainVars == << endpoints, options, cursor, polled, replies, ugr_config,
               parserVars >>

inputVars ==
  << total_read, declared, last_declared, local_lines, global_lines,
     all_matched >>

NoError == [kind |-> "none"]
EmptyDict == << >>

(***************************************************************************)
(* Text operators.                                                         *)
(***************************************************************************)
\* str.strip() on a token sequence
RECURSIVE Strip(_)
Strip(raw) ==
  IF raw = << >> THEN raw
  ELSE IF Head(raw) = " " THEN Strip(Tail(raw))
  ELSE IF raw[Len(raw)] = " " THEN Strip(SubSeq(raw, 1, Len(raw) - 1))
  ELSE raw

\* text.split(sep + ".")[-1]: what follows the last of the non-overlapping
\* occurrences of sep + "." that a left-to-right scan finds; the whole text
\* when there is none.
RECURSIVE SplitLast(_, _, _)
SplitLast(text, sep, from) ==
  LET n == Len(sep)
      Occ(p) == p + n - 1 < Len(text) /\ SubSeq(text, p, p + n - 1) = sep
      cands == { p \in from..Len(text) : Occ(p) }
  IN  IF cands = {} THEN SubSeq(text, from, Len(text))
      ELSE LET p == CHOOSE q \in cands : \A r \in cands : q <= r
           IN  SplitLast(text, sep, p + n)

\* _key.split('.')[1]
LocID(_key) == _key[2]

\* _key.split('*'+'.')[-1]
GlobalSettingName(_key) == SplitLast(_key, <<"*">>, 1)

\* _key.split(_id+'.')[-1]
LocalSettingName(_key, id) == SplitLast(_key, id, 1)

\* _plugin.split("/")[-1]
PluginFileName(_plugin) == _plugin[Len(_plugin)]

(***************************************************************************)
(* The ordered dict _storage_shares.                                       *)
(***************************************************************************)
HasShare(shares, id) == \E k \in 1..Len(shares) : shares[k].id = id
ShareIndex(shares, id) == CHOOSE k \in 1..Len(shares) : shares[k].id = id

\* dict.update({name: value})
DictUpdate(dict, name, value) ==
  [n \in DOMAIN dict \cup {name} |-> IF n = name THEN value ELSE dict[n]]

\* the three updates of a declaration line; setdefault keeps an old record
DeclareShare(shares, plugin, id, url) ==
  IF HasShare(shares, id)
  THEN [shares EXCEPT ![ShareIndex(shares, id)] =
          [@ EXCEPT !.id = id, !.url = url, !.plugin = PluginFileName(plugin)]]
  ELSE Append(shares, [id |-> id, url |-> url, plugin |-> PluginFileName(plugin),
                       has_plugin_settings |-> FALSE,
                       plugin_settings |-> EmptyDict])

\* setdefault('plugin_settings', {}) and update({_setting: _value.strip()})
SetLocalSetting(shares, id, setting, value) ==
  [shares EXCEPT ![ShareIndex(shares, id)] =
     [@ EXCEPT !.has_plugin_settings = TRUE,
               !.plugin_settings = DictUpdate(@, setting, value)]]

\* the back-fill loop reads share['plugin_settings'] of every share as soon
\* as there is one global setting
BackfillKeyError(shares, globals) ==
  /\ DOMAIN globals # {}
  /\ \E k \in 1..Len(shares) : ~shares[k].has_plugin_settings

ApplyGlobalSettings(shares, globals) ==
  [k \in 1..Len(shares) |->
     [shares[k] EXCEPT !.plugin_settings =
        [n \in DOMAIN @ \cup DOMAIN globals |->
           IF n \in DOMAIN @ THEN @[n] ELSE globals[n]]]]

\* DSSConfigFileErrorIDMismatch as parse_conf_files raises it
IDMismatchError(id, line_number, config_file, key) ==
  [kind |-> "DSSConfigFileErrorIDMismatch", storage_share |-> id,
   line_number |-> line_number, config_file |-> config_file, line |-> key]

(***************************************************************************)
(* Share objects (dynafed_storagestats.base is not among the sources: the  *)
(* constructor follows the data model of the specification).  Byte counts  *)
(* are in units of 1000**3 bytes, so that 1000**4 bytes is 1000.           *)
(***************************************************************************)
DefaultQuota == 1000

StorageShare_init(cls, rec) ==
  [cls |-> cls, id |-> rec.id, plugin |-> rec.plugin, url |-> rec.url,
   plugin_settings |-> rec.plugin_settings,
   stats |-> [bytesused |-> 0, bytesfree |-> 0, filecount |-> 0,
              quota |-> DefaultQuota],
   status |-> << >>, debug |-> << >>]

_plugin_dict ==
  ("libugrlocplugin_dav.so" :> "DAVStorageShare") @@
  ("libugrlocplugin_http.so" :> "DAVStorageShare") @@
  ("libugrlocplugin_s3.so" :> "S3StorageShare") @@
  ("libugrlocplugin_azure.so" :> "AzureStorageShare")

DSSUnsupportedPluginError(plugin) ==
  [kind |-> "DSSUnsupportedPluginError", error |-> "UnsupportedPlugin",
   plugin |-> plugin]

\* factory with a table that lacks the azure entry
factory_no_azure(plugin) ==
  IF plugin \in DOMAIN _plugin_dict \ {"libugrlocplugin_azure.so"}
  THEN [raises |-> FALSE, cls |-> _plugin_dict[plugin]]
  ELSE [raises |-> TRUE, error |-> DSSUnsupportedPluginError(plugin)]

\* the class, or the exception raised
factory(plugin) ==
  IF plugin \in DOMAIN _plugin_dict
  THEN [raises |-> FALSE, cls |-> _plugin_dict[plugin]]
  ELSE [raises |-> TRUE, error |-> DSSUnsupportedPluginError(plugin)]

\* one iteration of the loop of get_storage_share_objects
StorageShareObject(rec) ==
  LET f == factory(rec.plugin)
  IN  IF ~f.raises THEN StorageShare_init(f.cls, rec)
      ELSE [StorageShare_init("StorageShare", rec) EXCEPT
              !.debug = Append(@, <<"[ERROR]", f.error>>),
              !.status = Append(@, <<"[ERROR]", f.error.error>>)]

\* get_storage_share_objects leaving out the records factory rejects
get_storage_share_objects_dropping(storage_shares) ==
  LET Kept(rec) == ~factory(rec.plugin).raises
      kept == SelectSeq(storage_shares, Kept)
  IN  [k \in 1..Len(kept) |-> StorageShareObject(kept[k])]

get_storage_share_objects(storage_shares) ==
  [k \in 1..Len(storage_shares) |-> StorageShareObject(storage_shares[k])]

(***************************************************************************)
(* get_storage_shares: get_conf_files, parse_conf_files, then              *)
(* get_storage_share_objects.                                              *)
(***************************************************************************)
\* nothing parsed yet
LoaderIdle ==
  /\ config_files = 0
  /\ _config_file = 0
  /\ _line_number = 0
  /\ _id = << >>
  /\ _global_settings = EmptyDict
  /\ storage_share_objects = << >>
  /\ lines_read = 0
  /\ total_read = 0
  /\ declared = {}
  /\ last_declared = << >>
  /\ local_lines = EmptyDict
  /\ global_lines = EmptyDict
  /\ all_matched = TRUE

\* no collector call under way
CollectIdle ==
  /\ storage_share = << >>
  /\ requests_sent = 0
  /\ reply = << >>
  /\ trusted_by = {}

\* no call of convert_size_to_bytes under way
ParserIdle ==
  /\ size = << >>
  /\ converted = << >>

\* no grouping into endpoints and no accounting document yet
AccountingIdle ==
  /\ storage_shares_mask = << >>
  /\ storage_endpoints = << >>
  /\ star = << >>

\* no dispatcher loop under way
MainIdle ==
  /\ endpoints = << >>
  /\ options = << >>
  /\ cursor = 0
  /\ polled = << >>
  /\ replies = << >>
  /\ ugr_config = << >>
  /\ ParserIdle

Init ==
  /\ pc = "get_conf_files"
  /\ raised = NoError
  /\ _storage_shares = << >>
  /\ LoaderIdle
  /\ AccountingIdle
  /\ CollectIdle
  /\ MainIdle

\* get_conf_files finds some files, or none and get_storage_shares exits
get_conf_files ==
  /\ pc = "get_conf_files"
  /\ \E n \in 0..MaxFiles :
       /\ config_files' = n
       /\ IF n = 0
          THEN /\ raised' = [kind |-> "DSSConfigFileErrorNoConfigFilesFound"]
               /\ pc' = "exit"
               /\ _config_file' = _config_file
          ELSE /\ raised' = raised
               /\ pc' = "parse"
               /\ _config_file' = 1
  /\ UNCHANGED << _line_number, _id, _storage_shares, _global_settings,
                  storage_share_objects, lines_read >>
  /\ UNCHANGED inputVars
  /\ UNCHANGED << collectVars, mainVars, accountingVars >>

CanRead == pc = "parse" /\ total_read < MaxLines

\* what a setting line of the input is by the grammar, whatever the parser
\* makes of it: the second segment of the key is the target, "*" or a share
\* ID, and the rest of the key is the setting name
IsGlobalLine(key) == key[2] = "*"
IsLocalLineFor(key, id) == id = << key[2] >>
NameAfter(key) == SubSeq(key, 3, Len(key))

NoteSetting(line) ==
  /\ global_lines' =
       IF IsGlobalLine(line.key)
       THEN DictUpdate(global_lines, NameAfter(line.key), Strip(line.raw))
       ELSE global_lines
  /\ local_lines' =
       IF ~IsGlobalLine(line.key) /\ IsLocalLineFor(line.key, last_declared)
       THEN DictUpdate(local_lines,
                       <<last_declared, NameAfter(line.key)>>,
                       Strip(line.raw))
       ELSE local_lines
  /\ all_matched' =
       (all_matched /\ (IsGlobalLine(line.key)
                          \/ IsLocalLineFor(line.key, last_declared)))
  /\ UNCHANGED << declared, last_declared >>

Advance ==
  /\ _line_number' = _line_number + 1
  /\ lines_read' = lines_read + 1
  /\ total_read' = total_read + 1

\* a line holding "glb.locplugin[]"
read_declaration ==
  /\ CanRead
  /\ \E line \in DeclLines :
       /\ _id' = line.id
       /\ _storage_shares' =
            DeclareShare(_storage_shares, line.plugin, line.id, line.url)
       /\ declared' = declared \cup {line.id}
       /\ last_declared' = line.id
  /\ Advance
  /\ UNCHANGED << pc, config_files, _config_file, _global_settings, raised,
                  storage_share_objects, local_lines, global_lines, all_matched >>
  /\ UNCHANGED << collectVars, mainVars, accountingVars >>

\* a "locplugin" line whose second segment is "*"
read_global_setting ==
  /\ CanRead
  /\ \E line \in SettingLines :
       /\ LocID(line.key) = "*"
       /\ _global_settings' =
            DictUpdate(_global_settings, GlobalSettingName(line.key),
                       Strip(line.raw))
       /\ NoteSetting(line)
  /\ Advance
  /\ UNCHANGED << pc, config_files, _config_file, _id, _storage_shares, raised,
                  storage_share_objects >>
  /\ UNCHANGED << collectVars, mainVars, accountingVars >>

\* a "locplugin" line whose second segment equals _id
read_local_setting ==
  /\ CanRead
  /\ _id # << >>
  /\ \E line \in SettingLines :
       /\ LocID(line.key) # "*"
       /\ _id = << LocID(line.key) >>
       /\ _storage_shares' =
            SetLocalSetting(_storage_shares, _id,
                            LocalSettingName(line.key, _id), Strip(line.raw))
       /\ NoteSetting(line)
  /\ Advance
  /\ UNCHANGED << pc, config_files, _config_file, _id, _global_settings, raised,
                  storage_share_objects >>
  /\ UNCHANGED << collectVars, mainVars, accountingVars >>

\* read_id_mismatch with the error only noted and the scan going on
read_id_mismatch_logged ==
  /\ CanRead
  /\ _id # << >>
  /\ \E line \in SettingLines :
       /\ LocID(line.key) # "*"
       /\ _id # << LocID(line.key) >>
       /\ raised' = IDMismatchError(_id, _line_number, _config_file, line.key)
       /\ NoteSetting(line)
  /\ pc' = pc
  /\ Advance
  /\ UNCHANGED << config_files, _config_file, _id, _storage_shares,
                  _global_settings, storage_share_objects >>
  /\ UNCHANGED << collectVars, mainVars, accountingVars >>

\* a "locplugin" line for another ID: the error is raised, get_storage_shares
\* catches it and exits
read_id_mismatch ==
  /\ CanRead
  /\ _id # << >>
  /\ \E line \in SettingLines :
       /\ LocID(line.key) # "*"
       /\ _id # << LocID(line.key) >>
       /\ raised' = IDMismatchError(_id, _line_number, _config_file, line.key)
       /\ NoteSetting(line)
  /\ pc' = "exit"
  /\ Advance
  /\ UNCHANGED << config_files, _config_file, _id, _storage_shares,
                  _global_settings, storage_share_objects >>
  /\ UNCHANGED << collectVars, mainVars, accountingVars >>

\* a "locplugin" line for an ID before any declaration: _id is read unbound
read_unbound_id ==
  /\ CanRead
  /\ _id = << >>
  /\ \E line \in SettingLines :
       /\ LocID(line.key) # "*"
       /\ raised' = [kind |-> "UnboundLocalError"]
       /\ NoteSetting(line)
  /\ pc' = "crash"
  /\ Advance
  /\ UNCHANGED << config_files, _config_file, _id, _storage_shares,
                  _global_settings, storage_share_objects >>
  /\ UNCHANGED << collectVars, mainVars, accountingVars >>

\* a comment or any other line
read_ignored ==
  /\ CanRead
  /\ Advance
  /\ UNCHANGED << pc, config_files, _config_file, _id, _storage_shares,
                  _global_settings, raised, storage_share_objects >>
  /\ UNCHANGED << declared, last_declared, local_lines, global_lines,
                  all_matched >>
  /\ UNCHANGED << collectVars, mainVars, accountingVars >>

\* the end of a file that is not the last
next_file ==
  /\ pc = "parse"
  /\ _config_file < config_files
  /\ _config_file' = _config_file + 1
  /\ _line_number' = 0
  /\ lines_read' = 0
  /\ UNCHANGED << pc, config_files, _id, _storage_shares, _global_settings,
                  raised, storage_share_objects >>
  /\ UNCHANGED inputVars
  /\ UNCHANGED << collectVars, mainVars, accountingVars >>

\* the end of the last file: the global settings are applied and
\* parse_conf_files returns
parse_conf_files_return ==
  /\ pc = "parse"
  /\ _config_file = config_files
  /\ ~BackfillKeyError(_storage_shares, _global_settings)
  /\ _storage_shares' = ApplyGlobalSettings(_storage_shares, _global_settings)
  /\ pc' = "get_storage_share_objects"
  /\ UNCHANGED << config_files, _config_file, _line_number, _id,
                  _global_settings, raised, storage_share_objects, lines_read >>
  /\ UNCHANGED inputVars
  /\ UNCHANGED << collectVars, mainVars, accountingVars >>

\* the end of the last file: the back-fill reads a missing 'plugin_settings'
parse_conf_files_key_error ==
  /\ pc = "parse"
  /\ _config_file = config_files
  /\ BackfillKeyError(_storage_shares, _global_settings)
  /\ raised' = [kind |-> "KeyError"]
  /\ pc' = "crash"
  /\ UNCHANGED << config_files, _config_file, _line_number, _id,
                  _storage_shares, _global_settings, storage_share_objects,
                  lines_read >>
  /\ UNCHANGED inputVars
  /\ UNCHANGED << collectVars, mainVars, accountingVars >>

\* "return get_storage_share_objects(_storage_shares)"
return_storage_share_objects ==
  /\ pc = "get_storage_share_objects"
  /\ storage_share_objects' = get_storage_share_objects(_storage_shares)
  /\ pc' = "done"
  /\ UNCHANGED << config_files, _config_file, _line_number, _id,
                  _storage_shares, _global_settings, raised, lines_read >>
  /\ UNCHANGED inputVars
  /\ UNCHANGED << collectVars, mainVars, accountingVars >>

Next ==
  \/ get_conf_files
  \/ read_declaration
  \/ read_global_setting
  \/ read_local_setting
  \/ read_id_mismatch
  \/ read_unbound_id
  \/ read_ignored
  \/ next_file
  \/ parse_conf_files_return
  \/ parse_conf_files_key_error
  \/ return_storage_share_objects

Spec == Init /\ [][Next]_vars

(***************************************************************************)
(* Claims about get_storage_shares, checked under Spec.                    *)
(***************************************************************************)
ParseReturned == pc \in {"get_storage_share_objects", "done"}

ObjectIDs == { storage_share_objects[k].id : k \in 1..Len(storage_share_objects) }

\* C1: when every setting line read is a wildcard line or a line for the
\* share declared last, the run does not fail, and once the objects are built
\* there is exactly one per declared ID, with that ID, and no other.
C1_OneObjectPerDeclaredShare ==
  (config_files > 0 /\ all_matched) =>
    /\ pc \notin {"exit", "crash"}
    /\ pc = "done" =>
         /\ ObjectIDs = declared
         /\ Len(storage_share_objects) = Cardinality(declared)

\* C2: after parse_conf_files returns, every share holds, for every name set
\* by a wildcard line, its own value if a line locplugin.<id>.<name> was read
\* for it and the last wildcard value otherwise.
C2_LocalElseLastGlobal ==
  ParseReturned =>
    \A k \in 1..Len(_storage_shares) : \A g \in DOMAIN global_lines :
      LET s == _storage_shares[k]
      IN  /\ g \in DOMAIN s.plugin_settings
          /\ s.plugin_settings[g] =
               IF <<s.id, g>> \in DOMAIN local_lines
               THEN local_lines[<<s.id, g>>]
               ELSE global_lines[g]

\* C3: the ID-mismatch error names the file being scanned and the number of
\* the offending line in it, the first line of a file being line 1.
C3_MismatchNamesFileAndLine ==
  raised.kind = "DSSConfigFileErrorIDMismatch" =>
    /\ raised.config_file = _config_file
    /\ raised.line_number = lines_read

\* C4: as soon as a setting line that is neither a wildcard line nor a line
\* for the share declared last has been read (also before any declaration),
\* the run has ended with the ID-mismatch error.
C4_ForeignLineRaisesMismatch ==
  ~all_matched => raised.kind = "DSSConfigFileErrorIDMismatch"

\* C5: when no configuration file is found or the ID-mismatch error is raised,
\* get_storage_shares has exited, for good, with no share object built; share
\* objects exist only after a parse that raised nothing.
C5_ExitBeforeAnyShareBuilt ==
  /\ raised.kind \in {"DSSConfigFileErrorNoConfigFilesFound",
                      "DSSConfigFileErrorIDMismatch"}
       => (pc = "exit" /\ storage_share_objects = << >> /\ ~ENABLED Next)
  /\ storage_share_objects # << >> => (pc = "done" /\ raised = NoError)

\* C5: the ID-mismatch error has ended a run in which a share was declared
C5_Witness ==
  /\ pc = "exit"
  /\ raised.kind = "DSSConfigFileErrorIDMismatch"
  /\ _storage_shares # << >>

\* C19: parse_conf_files does not end with a KeyError, and once it has
\* returned every declared share has a record with plugin_settings; a share
\* without any local setting line has exactly the global settings read (none
\* when there are none).
C19_RecordForEveryDeclaredShare ==
  /\ raised.kind # "KeyError"
  /\ ParseReturned =>
       /\ { _storage_shares[k].id : k \in 1..Len(_storage_shares) } = declared
       /\ \A k \in 1..Len(_storage_shares) :
            LET s == _storage_shares[k]
            IN  /\ s.has_plugin_settings
                /\ (\A n \in DOMAIN local_lines : n[1] # s.id)
                     => s.plugin_settings = _global_settings

\* C28: for every line locplugin.<id>.<name> read for the share declared
\* last, the record of that share holds the setting under <name>, the whole
\* key after "locplugin.<id>.", with the text after the first colon stripped
\* of surrounding white space as its value (the latest line wins).
C28_SettingStoredUnderItsName ==
  \A l \in DOMAIN local_lines :
    /\ HasShare(_storage_shares, l[1])
    /\ LET s == _storage_shares[ShareIndex(_storage_shares, l[1])]
       IN  /\ l[2] \in DOMAIN s.plugin_settings
           /\ s.plugin_settings[l[2]] = local_lines[l]

\* the key is "locplugin.<id>." followed by a name
KeyIsFor(key, id) ==
  /\ Len(key) > Len(id) + 1
  /\ SubSeq(key, 2, Len(id) + 1) = id

\* C29: the ID-mismatch error is never raised on a line locplugin.<id>.<name>
\* whose <id> is the ID of the share declared last, dots in the ID or not.
C29_DottedIDAccepted ==
  raised.kind = "DSSConfigFileErrorIDMismatch" =>
    ~KeyIsFor(raised.line, raised.storage_share)

(***************************************************************************)
(* get_storage_share_objects and factory on records given directly.        *)
(***************************************************************************)
MaxShares == 2

\* plugin strings: the four of the table, one in capitals, one with its
\* directory, one unknown, the empty one
PluginNames ==
  { "libugrlocplugin_dav.so", "libugrlocplugin_http.so",
    "libugrlocplugin_s3.so", "libugrlocplugin_azure.so",
    "LIBUGRLOCPLUGIN_DAV.SO", "/usr/lib64/ugr/libugrlocplugin_dav.so",
    "libugrlocplugin_lfc.so", "" }

ShareRecords ==
  { [id |-> i, url |-> "davs://h1/p", plugin |-> p,
     has_plugin_settings |-> TRUE,
     plugin_settings |-> (<<"x">> :> <<"v1">>)] :
      i \in IDs, p \in PluginNames }

\* the values of a dict keyed by ID, in its iteration order
ShareDicts ==
  { d \in UNION { [1..n -> ShareRecords] : n \in 0..MaxShares } :
      \A j, k \in DOMAIN d : j # k => d[j].id # d[k].id }

InitObjects ==
  /\ pc = "get_storage_share_objects"
  /\ raised = NoError
  /\ _storage_shares \in ShareDicts
  /\ LoaderIdle
  /\ AccountingIdle
  /\ CollectIdle
  /\ MainIdle

NextObjects == return_storage_share_objects

SpecObjects == InitObjects /\ [][NextObjects]_vars

ObjectsBuilt == pc = "done"

IsPlaceholder(obj, rec) ==
  /\ obj.cls = "StorageShare"
  /\ obj.id = rec.id
  /\ \E k \in 1..Len(obj.status) :
       obj.status[k] = <<"[ERROR]", "UnsupportedPlugin">>
  /\ \E k \in 1..Len(obj.debug) :
       /\ obj.debug[k][1] = "[ERROR]"
       /\ obj.debug[k][2].kind = "DSSUnsupportedPluginError"
       /\ obj.debug[k][2].plugin = rec.plugin

Supported ==
  { "libugrlocplugin_dav.so", "libugrlocplugin_http.so",
    "libugrlocplugin_s3.so", "libugrlocplugin_azure.so" }

MaxBytes == 2      \* largest byte count an endpoint reports
MaxEntries == 2    \* most entries in a listing

\* the key 'storagestats.quota'
QuotaKey == <<"storagestats", "quota">>

\* plugin_settings['storagestats.quota']: the literal 'api' or a byte count
QuotaSettings ==
  { [api |-> TRUE, bytes |-> 0] } \cup
  { [api |-> FALSE, bytes |-> n] : n \in {1, 5} }

\* the text of an XML element: the element is absent, it is empty (its text
\* is None), or it holds a number
Fields ==
  { [kind |-> "absent", n |-> 0], [kind |-> "empty", n |-> 0] } \cup
  { [kind |-> "text", n |-> n] : n \in 0..MaxBytes }

StatusCodes == { 207, 404, 500 }

\* plugin_settings['ssl_check'], the verify argument of requests.request: True
\* (the default trust store), False (no verification) or the path of a CA
\* bundle, written as texts
SslKey == <<"ssl_check">>
DefaultStore == "True"
NoVerify == "False"
CustomCA == "/etc/grid-security/ca.pem"
SslChecks == { DefaultStore, NoVerify, CustomCA }

\* the body of an answer to the RFC4331 PROPFIND
Rfc4331Bodies ==
  { [xml |-> FALSE, used |-> [kind |-> "absent", n |-> 0],
     avail |-> [kind |-> "absent", n |-> 0]] } \cup
  { [xml |-> TRUE, used |-> u, avail |-> a] : u \in Fields, a \in Fields }

\* the body of an answer to the Depth: infinity PROPFIND: the
\* getcontentlength elements it holds
RECURSIVE SeqsUpTo(_, _)
SeqsUpTo(S, n) ==
  IF n = 0 THEN { << >> }
  ELSE LET shorter == SeqsUpTo(S, n - 1)
       IN  shorter \cup { Append(q, x) : q \in shorter, x \in S }

ListingBodies ==
  { [xml |-> FALSE, lengths |-> << >>] } \cup
  { [xml |-> TRUE, lengths |-> l] :
      l \in SeqsUpTo(Fields \ { [kind |-> "absent", n |-> 0] }, MaxEntries) }

\* what one call of send_dav_request ends with
SendOutcomes(bodies) ==
  { [kind |-> k] :
      k \in {"InvalidSchema", "SSLError", "ConnectionError", "IOError"} } \cup
  { [kind |-> "Response", status_code |-> c, body |-> b] :
      c \in StatusCodes, b \in bodies }

\* requests.request(..., verify=storage_share.plugin_settings['ssl_check']):
\* the handshake fails when the store named does not hold the issuer of the
\* endpoint's certificate; otherwise the request ends in any of SendOutcomes
send_dav_request(share, bodies) ==
  LET verify == share.plugin_settings[SslKey]
  IN  IF verify # NoVerify /\ verify \notin trusted_by
      THEN { [kind |-> "SSLError"] }
      ELSE SendOutcomes(bodies)

\* bool(response): requests.Response.__bool__ is Response.ok
Truthy(_response) == _response.status_code < 400

Returns(share) == [share |-> share, raises |-> NoError]
Raises(share, kind) == [share |-> share, raises |-> [kind |-> kind]]

\* process_rfc4331_response taking the quota to be the free bytes alone
process_rfc4331_response_free_only(response, share) ==
  LET body == response.body
      quota == share.plugin_settings[QuotaKey]
  IN  IF ~body.xml THEN Raises(share, "XMLSyntaxError")
      ELSE IF body.avail.kind # "text" \/ body.used.kind # "text"
      THEN Raises(share, "ErrorDAVQuotaMethod")
      ELSE LET set == [share EXCEPT !.stats.bytesused = body.used.n,
                                    !.stats.bytesfree = body.avail.n,
                                    !.stats.quota = body.avail.n]
           IN  IF quota.api /\ body.avail.n = 0
               THEN Raises(set, "DAVZeroQuotaWarning")
               ELSE Returns(set)

process_rfc4331_response(response, share) ==
  LET body == response.body
      quota == share.plugin_settings[QuotaKey]
  IN  IF ~body.xml THEN Raises(share, "XMLSyntaxError")
      ELSE IF body.avail.kind = "absent" THEN Raises(share, "AttributeError")
      ELSE IF body.avail.kind = "empty" THEN Raises(share, "ErrorDAVQuotaMethod")
      ELSE IF body.used.kind = "absent" THEN Raises(share, "AttributeError")
      ELSE IF body.used.kind = "empty" THEN Raises(share, "TypeError")
      ELSE LET bytesused == body.used.n
               bytesfree == body.avail.n
           IN  IF quota.api
               THEN LET set == [share EXCEPT !.stats.bytesused = bytesused,
                                             !.stats.bytesfree = bytesfree,
                                             !.stats.quota = bytesused + bytesfree]
                    IN  IF bytesfree = 0
                        THEN Raises(set, "DAVZeroQuotaWarning")
                        ELSE Returns(set)
               ELSE Returns([share EXCEPT
                               !.stats.bytesused = bytesused,
                               !.stats.quota = quota.bytes,
                               !.stats.bytesfree = quota.bytes - bytesused])

RECURSIVE SumLengths(_)
SumLengths(fields) ==
  IF fields = << >> THEN 0 ELSE Head(fields).n + SumLengths(Tail(fields))

\* the pair (_bytesused, _filecount): only elements whose text is a string count
add_xml_getcontentlength(content) ==
  LET IsStr(f) == f.kind = "text"
      counted == SelectSeq(content.lengths, IsStr)
  IN  << SumLengths(counted), Len(counted) >>

\* lines 104-108 of list_files
process_listing(response, share) ==
  LET body == response.body
      quota == share.plugin_settings[QuotaKey]
  IN  IF ~body.xml THEN Raises(share, "XMLSyntaxError")
      ELSE LET counts == add_xml_getcontentlength(body)
               counted == [share EXCEPT !.stats.bytesused = counts[1],
                                        !.stats.filecount = counts[2]]
           IN  IF quota.api
               THEN Raises([counted EXCEPT !.stats.quota = "api"], "TypeError")
               ELSE Returns([counted EXCEPT
                               !.stats.quota = quota.bytes,
                               !.stats.bytesfree = quota.bytes - counts[1]])

\* what the finally clause does with an answer below 400: rfc4331 hands it to
\* process_rfc4331_response, list_files sums it up itself
process_response(call, _response, share) ==
  IF call = "rfc4331"
  THEN process_rfc4331_response(_response, share)
  ELSE process_listing(_response, share)

\* the finally clause of list_files and of rfc4331
finally_clause(call, _response, share) ==
  IF Truthy(_response)
  THEN IF _response.status_code < 400
       THEN process_response(call, _response, share)
       ELSE [share |-> share,
             raises |-> [kind |-> "DSSConnectionError",
                         status_code |-> _response.status_code]]
  ELSE Returns(share)

\* dav_request without the second request: the first TLS error ends the call
dav_request_no_retry(call, share, first, second) ==
  IF first.kind = "InvalidSchema"
  THEN Raises(share, "DSSConnectionErrorInvalidSchema") @@ [sent |-> 1]
  ELSE IF first.kind = "SSLError"
  THEN [share |-> share,
        raises |-> [kind |-> "DSSConnectionError", status_code |-> "092"],
        sent |-> 1]
  ELSE IF first.kind = "ConnectionError"
  THEN [share |-> share,
        raises |-> [kind |-> "DSSConnectionError", status_code |-> "400"],
        sent |-> 1]
  ELSE IF first.kind = "IOError"
  THEN Raises(share, "DSSConnectionErrorDAVCertPath") @@ [sent |-> 1]
  ELSE finally_clause(call, first, share) @@ [sent |-> 1]

\* the try statement of list_files and of rfc4331: first and second are what
\* the first send_dav_request and the one of the SSLError handler end with
dav_request(call, share, first, second) ==
  IF first.kind = "InvalidSchema"
  THEN Raises(share, "DSSConnectionErrorInvalidSchema") @@ [sent |-> 1]
  ELSE IF first.kind = "SSLError"
  THEN IF second.kind = "SSLError"
       THEN [share |-> share,
             raises |-> [kind |-> "DSSConnectionError", status_code |-> "092"],
             sent |-> 2]
       ELSE IF second.kind = "Response"
       THEN finally_clause(call, second, share) @@ [sent |-> 2]
       ELSE Raises(share, second.kind) @@ [sent |-> 2]
  ELSE IF first.kind = "ConnectionError"
  THEN [share |-> share,
        raises |-> [kind |-> "DSSConnectionError", status_code |-> "400"],
        sent |-> 1]
  ELSE IF first.kind = "IOError"
  THEN Raises(share, "DSSConnectionErrorDAVCertPath") @@ [sent |-> 1]
  ELSE finally_clause(call, first, share) @@ [sent |-> 1]

\* what BaseBlobService.list_blobs ends with
BlobOutcomes ==
  { [kind |-> k, blobs |-> << >>] :
      k \in {"AzureMissingResourceHttpError", "AzureHttpError",
             "AzureException"} } \cup
  { [kind |-> "Blobs", blobs |-> l] :
      l \in SeqsUpTo({ [kind |-> "text", n |-> n] : n \in 0..MaxBytes },
                     MaxEntries) }

blob_listing(share, outcome) ==
  LET quota == share.plugin_settings[QuotaKey]
      _total_bytes == SumLengths(outcome.blobs)
      _total_files == Len(outcome.blobs)
  IN  IF outcome.kind = "AzureMissingResourceHttpError"
      THEN Raises(share, "DSSErrorAzureContainerNotFound")
      ELSE IF outcome.kind = "AzureHttpError"
      THEN Raises(share, "DSSConnectionErrorAzureAPI")
      ELSE IF outcome.kind = "AzureException"
      THEN [share |-> share,
            raises |-> [kind |-> "DSSConnectionError", status_code |-> "400"]]
      ELSE IF quota.api
      THEN Raises([share EXCEPT !.stats.bytesused = _total_bytes,
                                !.stats.quota = "api"], "TypeError")
      ELSE Returns([share EXCEPT
                      !.stats.bytesused = _total_bytes,
                      !.stats.quota = quota.bytes,
                      !.stats.bytesfree = quota.bytes - _total_bytes,
                      !.stats.filecount = _total_files])

\* a share as the collectors receive it, nothing collected yet
CollectorShares ==
  { StorageShare_init(cls, [id |-> <<"s1">>, url |-> "davs://h1/p",
                            plugin |-> "libugrlocplugin_dav.so",
                            plugin_settings |-> (QuotaKey :> q) @@ (SslKey :> v)]) :
      cls \in {"DAVStorageShare"}, q \in QuotaSettings, v \in SslChecks }
  \cup
  { StorageShare_init(cls, [id |-> <<"s1">>, url |-> "azure://h1/p",
                            plugin |-> "libugrlocplugin_azure.so",
                            plugin_settings |-> (QuotaKey :> q) @@ (SslKey :> v)]) :
      cls \in {"AzureStorageShare"}, q \in QuotaSettings, v \in { DefaultStore } }

InitCollect ==
  /\ pc = "collect"
  /\ raised = NoError
  /\ _storage_shares = << >>
  /\ LoaderIdle
  /\ AccountingIdle
  /\ MainIdle
  /\ storage_share \in CollectorShares
  /\ requests_sent = 0
  /\ reply = << >>
  /\ trusted_by \in SUBSET { DefaultStore, CustomCA }

\* the call ends: the share as the call left it, the exception it raised
Collected(call, r, sends) ==
  /\ storage_share' = r.share
  /\ raised' = r.raises
  /\ reply' = [call |-> call, sends |-> sends,
                verify |-> IF call = "list_blobs" THEN << >>
                           ELSE [k \in DOMAIN sends |->
                                   storage_share.plugin_settings[SslKey]]]
  /\ pc' = IF r.raises = NoError THEN "returned" ELSE "raised"
  /\ UNCHANGED << trusted_by, loaderVars, mainVars, accountingVars >>

\* the DAV share calls rfc4331 or list_files, the Azure share list_blobs
rfc4331 ==
  /\ pc = "collect"
  /\ storage_share.cls = "DAVStorageShare"
  /\ \E first \in send_dav_request(storage_share, Rfc4331Bodies) :
       \E second \in IF first.kind = "SSLError"
                     THEN send_dav_request(storage_share, Rfc4331Bodies)
                     ELSE { first } :
         LET r == dav_request("rfc4331", storage_share, first, second)
         IN  /\ requests_sent' = r.sent
             /\ Collected("rfc4331", r,
                          IF r.sent = 2 THEN <<first, second>> ELSE <<first>>)

list_files ==
  /\ pc = "collect"
  /\ storage_share.cls = "DAVStorageShare"
  /\ \E first \in send_dav_request(storage_share, ListingBodies) :
       \E second \in IF first.kind = "SSLError"
                     THEN send_dav_request(storage_share, ListingBodies)
                     ELSE { first } :
         LET r == dav_request("list_files", storage_share, first, second)
         IN  /\ requests_sent' = r.sent
             /\ Collected("list_files", r,
                          IF r.sent = 2 THEN <<first, second>> ELSE <<first>>)

list_blobs ==
  /\ pc = "collect"
  /\ storage_share.cls = "AzureStorageShare"
  /\ \E outcome \in BlobOutcomes :
       /\ requests_sent' = requests_sent
       /\ Collected("list_blobs", blob_listing(storage_share, outcome),
                    << outcome >>)

NextCollect ==
  \/ rfc4331
  \/ list_files
  \/ list_blobs

SpecCollect == InitCollect /\ [][NextCollect]_vars

CallOver == pc \in {"returned", "raised"}
LastAnswer == reply.sends[Len(reply.sends)]
Stats == storage_share.stats
QuotaSetting == storage_share.plugin_settings[QuotaKey]

\* the call processed an answer that carries both RFC4331 values
Rfc4331Values ==
  /\ reply.call = "rfc4331"
  /\ LastAnswer.kind = "Response"
  /\ LastAnswer.body.xml
  /\ LastAnswer.body.used.kind = "text"
  /\ LastAnswer.body.avail.kind = "text"

\* C9: after a call of rfc4331, list_files or list_blobs that returns
\* normally, bytesfree = quota - bytesused; with the quota setting 'api' the
\* stats hold the endpoint's two values and quota is their sum, otherwise
\* quota is the configured byte count.
C9_QuotaInvariantAfterCollection ==
  pc = "returned" =>
    /\ Stats.bytesfree = Stats.quota - Stats.bytesused
    /\ QuotaSetting.api =>
         /\ Rfc4331Values
         /\ Stats.bytesused = LastAnswer.body.used.n
         /\ Stats.bytesfree = LastAnswer.body.avail.n
         /\ Stats.quota = LastAnswer.body.used.n + LastAnswer.body.avail.n
    /\ ~QuotaSetting.api => Stats.quota = QuotaSetting.bytes

\* C10: when rfc4331 gets an answer with a status below 400 that reports
\* quota-available-bytes = 0 and the quota setting is 'api', the call ends with
\* the zero-quota warning, bytesfree is 0 and quota is still the default of
\* construction.
C10_ZeroAvailableKeepsDefaultQuota ==
  ( /\ CallOver
    /\ Rfc4331Values
    /\ LastAnswer.status_code < 400
    /\ LastAnswer.body.avail.n = 0
    /\ QuotaSetting.api ) =>
      /\ raised.kind = "DAVZeroQuotaWarning"
      /\ Stats.bytesfree = 0
      /\ Stats.quota = DefaultQuota

(***************************************************************************)
(* The dispatcher loop of ugrstoragestats.py over endpoints that           *)
(* get_endpoints has built: DAVStorageStats objects whose options passed   *)
(* validate_plugin_options, and the generic StorageStats objects that      *)
(* stand for endpoints with an unsupported plugin.  A status or message    *)
(* "[A][B][C] ..." is the sequence <<A, B, C>> of its tags.                *)
(***************************************************************************)
MaxEndpoints == 2
MaxReported == 1     \* largest byte count a polled endpoint reports

StatusOK == <<"OK", "OK", "200">>

\* an exception no clause of the script catches
Uncaught(kind) ==
  [kind |-> kind, base |-> "Exception", message |-> << >>, debug |-> kind]

\* StorageStats.validate_schema
schema_translator == ("dav" :> "http") @@ ("davs" :> "https")

StorageStats_validate_schema(scheme) ==
  [scheme |-> IF scheme \in DOMAIN schema_translator
              THEN schema_translator[scheme] ELSE scheme,
   raises |-> NoError]

\* S3StorageStats.validate_schema, which replaces the one of StorageStats in
\* the S3 class.  It reads plugin_options['ssl_check'] as the configuration
\* gave it: a text, true unless it is empty.
S3StorageStats_validate_schema(plugin_options, scheme) ==
  IF scheme # "s3" THEN [scheme |-> scheme, raises |-> NoError]
  ELSE IF <<"ssl_check">> \notin DOMAIN plugin_options
  THEN [scheme |-> scheme, raises |-> Uncaught("KeyError")]
  ELSE IF plugin_options[<<"ssl_check">>] # ""
  THEN [scheme |-> "https", raises |-> NoError]
  ELSE [scheme |-> "http", raises |-> NoError]

\* self.validate_schema(_url.scheme) of StorageStats.__init__, on the object
\* of the class cls
validate_schema(cls, _ep) ==
  IF cls = "S3StorageStats"
  THEN S3StorageStats_validate_schema(_ep.plugin_options, _ep.scheme)
  ELSE StorageStats_validate_schema(_ep.scheme)

\* StorageStats.__init__, when validate_schema returns
StorageStats_init(cls, _ep) ==
  [cls |-> cls, id |-> _ep.id, plugin |-> _ep.plugin,
   plugin_options |-> _ep.plugin_options,
   stats |-> [bytesused |-> 0, bytesfree |-> 0, files |-> 0,
              quota |-> DefaultQuota],
   uri |-> [scheme |-> validate_schema(cls, _ep).scheme],
   debug |-> << >>, status |-> StatusOK]

\* an exception of the script: its class, the class the dispatcher can catch
\* it by, its message and its debug text.  UGRBaseException.__init__ puts the
\* message in the place of a debug text that is None.
UGRError(kind, base, error, status_code, debug) ==
  [kind |-> kind, base |-> base,
   message |-> <<"ERROR", error, status_code>>,
   debug |-> IF debug = "None" THEN <<"ERROR", error, status_code>>
             ELSE <<debug>>]

\* the same for the classes under UGRBaseWarning
UGRWarning(kind, base, error, status_code, debug) ==
  [kind |-> kind, base |-> base,
   message |-> <<"WARN", error, status_code>>,
   debug |-> IF debug = "None" THEN <<"WARN", error, status_code>>
             ELSE <<debug>>]

\* the except branch of get_endpoints
Placeholder(_ep) ==
  LET ERR == UGRError("UGRUnsupportedPluginError", "UGRConfigFileError",
                      "UnsupportedPlugin", "000", "None")
  IN  [StorageStats_init("StorageStats", _ep) EXCEPT
         !.debug = Append(@, ERR.debug), !.status = ERR.message]

\* the endpoints get_endpoints can build for the ID id
BuiltEndpoints(id) ==
  { StorageStats_init("DAVStorageStats",
                      [id |-> id, plugin |-> "libugrlocplugin_dav.so",
                       scheme |-> "https",
                       plugin_options |-> (<<"quota">> :> q)]) :
      q \in { [api |-> TRUE, bytes |-> 0], [api |-> FALSE, bytes |-> 5] } }
  \cup
  { Placeholder([id |-> id, plugin |-> "libugrlocplugin_lfc.so",
                 scheme |-> "https",
                 plugin_options |-> (<<"quota">> :> [api |-> TRUE, bytes |-> 0])]) }

\* the IDs of the configuration, in the order of the dict
EndpointIDs == << <<"s1">>, <<"s3">>, <<"a", "b">>, <<"s4">> >>

EndpointLists ==
  { l \in UNION { [1..n -> UNION { BuiltEndpoints(EndpointIDs[k]) : k \in 1..n }] :
                    n \in 1..MaxEndpoints } :
      \A k \in DOMAIN l : l[k].id = EndpointIDs[k] }

\* what the PROPFIND of DAVStorageStats.get_storagestats ends with
ReportedFields ==
  { [kind |-> "absent", n |-> 0], [kind |-> "empty", n |-> 0] } \cup
  { [kind |-> "text", n |-> n] : n \in 0..MaxReported }

Answers ==
  { [kind |-> k] : k \in {"ConnectionError", "IOError"} } \cup
  { [kind |-> "Response", status_code |-> 207,
     body |-> [xml |-> FALSE, used |-> [kind |-> "absent", n |-> 0],
               avail |-> [kind |-> "absent", n |-> 0]]] } \cup
  { [kind |-> "Response", status_code |-> 207,
     body |-> [xml |-> TRUE, used |-> u, avail |-> a]] :
      u \in ReportedFields, a \in ReportedFields }

\* StorageStats.get_storagestats
StorageStats_get_storagestats(self, answer) ==
  [self |-> self, raises |-> NoError]

DAVStorageStats_get_storagestats(self, answer) ==
  IF answer.kind = "ConnectionError"
  THEN [self |-> self,
        raises |-> UGRError("UGRStorageStatsConnectionError",
                            "UGRStorageStatsError", "ConnectionError", "000",
                            "ConnectionError")]
  ELSE IF answer.kind = "IOError"
  THEN [self |-> self,
        raises |-> UGRError("UGRStorageStatsConnectionErrorDAVCertPath",
                            "UGRStorageStatsError", "ClientCertError", "000",
                            "IOError")]
  ELSE LET body == answer.body
           quota == self.plugin_options[<<"quota">>]
       IN  IF ~body.xml
           THEN [self |-> self, raises |-> Uncaught("XMLSyntaxError")]
           ELSE IF body.avail.kind = "absent"
           THEN [self |-> self, raises |-> Uncaught("AttributeError")]
           ELSE IF body.avail.kind = "empty"
           THEN LET ERR == UGRError("UGRStorageStatsErrorDAVQuotaMethod",
                                    "UGRStorageStatsError",
                                    "UnsupportedMethod", "000", "None")
                IN  [self |-> [self EXCEPT !.stats.bytesused = -1,
                                           !.stats.bytesfree = -1,
                                           !.stats.quota = -1,
                                           !.debug = Append(@, ERR.debug),
                                           !.status = ERR.message],
                     raises |-> NoError]
           ELSE IF body.used.kind = "absent"
           THEN [self |-> self, raises |-> Uncaught("AttributeError")]
           ELSE IF body.used.kind = "empty"
           THEN [self |-> self, raises |-> Uncaught("TypeError")]
           ELSE LET read == [self EXCEPT !.stats.bytesused = body.used.n,
                                         !.stats.bytesfree = body.avail.n]
                IN  [self |->
                       IF quota.api
                       THEN IF read.stats.bytesfree # 0
                            THEN [read EXCEPT !.stats.quota =
                                    read.stats.bytesused + read.stats.bytesfree]
                            ELSE read
                       ELSE [read EXCEPT !.stats.quota = quota.bytes],
                     raises |-> NoError]

\* self.storageprotocol exists in the subclasses only
HasStorageProtocol(self) == self.cls # "StorageStats"

\* upload_to_memcached starting the debug list afresh on a failed upload
upload_to_memcached_fresh_debug(self, set_ok) ==
  IF ~HasStorageProtocol(self)
  THEN [self |-> self, raises |-> Uncaught("AttributeError")]
  ELSE IF set_ok THEN [self |-> self, raises |-> NoError]
  ELSE LET ERR == UGRError("UGRStorageStatsMemcachedConnectionError",
                           "UGRMemcachedError", "None", "400", "None")
       IN  [self |-> [self EXCEPT !.debug = << ERR.debug >>,
                                  !.status = ERR.message],
            raises |-> NoError]

\* set_ok: mc.set returned non-zero
upload_to_memcached(self, set_ok) ==
  IF ~HasStorageProtocol(self)
  THEN [self |-> self, raises |-> Uncaught("AttributeError")]
  ELSE IF set_ok THEN [self |-> self, raises |-> NoError]
  ELSE LET ERR == UGRError("UGRStorageStatsMemcachedConnectionError",
                           "UGRMemcachedError", "None", "400", "None")
       IN  [self |-> [self EXCEPT !.debug = Append(@, ERR.debug),
                                  !.status = ERR.message],
            raises |-> NoError]

\* found: mc.get returned the index contents.  The return of the finally
\* clause ends the call normally whatever the except branch raised.
get_from_memcached(self, found) ==
  IF found THEN self
  ELSE LET ERR == UGRError("UGRStorageStatsMemcachedIndexError",
                           "UGRMemcachedError", "MemcachedEmptyIndex", "000",
                           "None")
       IN  [self EXCEPT !.debug = Append(@, ERR.debug),
                        !.status = ERR.message]

output_to_stdout(self, found) ==
  LET read == get_from_memcached(self, found)
  IN  IF ~HasStorageProtocol(read)
      THEN [self |-> read, raises |-> Uncaught("AttributeError")]
      ELSE [self |-> read, raises |-> NoError]

\* the two except clauses of the loop
Caught(ERR) == ERR.base \in {"UGRStorageStatsWarning", "UGRStorageStatsError"}

\* the body of the loop for one endpoint: get_storagestats, the except
\* clauses, then the two outputs the options ask for
loop_body(polled_ep, opts, set_ok, found) ==
  LET got == IF polled_ep.raises = NoError \/ ~Caught(polled_ep.raises)
             THEN polled_ep
             ELSE [self |-> [polled_ep.self EXCEPT
                               !.debug = Append(@, polled_ep.raises.debug),
                               !.status = polled_ep.raises.message],
                   raises |-> NoError]
      uploaded == IF got.raises = NoError /\ opts.output_memcached
                  THEN upload_to_memcached(got.self, set_ok)
                  ELSE got
  IN  IF uploaded.raises = NoError /\ opts.output_stdout
      THEN output_to_stdout(uploaded.self, found)
      ELSE uploaded

InitMain ==
  /\ pc = "loop"
  /\ raised = NoError
  /\ _storage_shares = << >>
  /\ LoaderIdle
  /\ AccountingIdle
  /\ CollectIdle
  /\ endpoints \in EndpointLists
  /\ options \in [output_memcached : BOOLEAN, output_stdout : BOOLEAN]
  /\ cursor = 1
  /\ polled = << >>
  /\ replies = << >>
  /\ ugr_config = << >>
  /\ ParserIdle

\* one turn of the loop: the endpoint as the turn left it; an exception no
\* clause catches ends the program
Turn(answer, set_ok, found, r) ==
  /\ endpoints' = [endpoints EXCEPT ![cursor] = r.self]
  /\ polled' = Append(polled, cursor)
  /\ replies' = Append(replies, [answer |-> answer, set_ok |-> set_ok,
                                 found |-> found])
  /\ raised' = r.raises
  /\ IF r.raises # NoError
     THEN pc' = "crash" /\ cursor' = cursor
     ELSE /\ cursor' = cursor + 1
          /\ pc' = IF cursor = Len(endpoints) THEN "done" ELSE "loop"
  /\ UNCHANGED << options, ugr_config, parserVars, loaderVars, collectVars,
                  accountingVars >>

\* what mc.set and mc.get may do, when the options have them called
SetOutcomes == IF options.output_memcached THEN BOOLEAN ELSE { TRUE }
GetOutcomes == IF options.output_stdout THEN BOOLEAN ELSE { TRUE }

dispatch_DAVStorageStats ==
  /\ pc = "loop"
  /\ endpoints[cursor].cls = "DAVStorageStats"
  /\ \E answer \in Answers, set_ok \in SetOutcomes, found \in GetOutcomes :
       Turn(answer, set_ok, found,
            loop_body(DAVStorageStats_get_storagestats(endpoints[cursor], answer),
                      options, set_ok, found))

dispatch_StorageStats ==
  /\ pc = "loop"
  /\ endpoints[cursor].cls = "StorageStats"
  /\ \E answer \in { [kind |-> "NotAsked"] }, set_ok \in SetOutcomes,
        found \in GetOutcomes :
       Turn(answer, set_ok, found,
            loop_body(StorageStats_get_storagestats(endpoints[cursor], answer),
                      options, set_ok, found))

NextMain ==
  \/ dispatch_DAVStorageStats
  \/ dispatch_StorageStats

SpecMain == InitMain /\ [][NextMain]_vars

\* the endpoint answered with both RFC4331 values: its collection does not fail
Collectible(answer) ==
  /\ answer.kind = "Response"
  /\ answer.body.xml
  /\ answer.body.used.kind = "text"
  /\ answer.body.avail.kind = "text"

\* the collection of the endpoint raised one of the errors the loop is made
\* for: a connection failure, or an answer without the quota values
FailedCollection(answer) ==
  \/ answer.kind \in {"ConnectionError", "IOError"}
  \/ /\ answer.kind = "Response"
     /\ answer.body.xml
     /\ answer.body.avail.kind = "empty"

\* no endpoint polled so far did anything but collect or fail in those ways
OnlyForeseenFailures ==
  \A k \in 1..Len(replies) :
    \/ replies[k].answer.kind = "NotAsked"
    \/ Collectible(replies[k].answer)
    \/ FailedCollection(replies[k].answer)

\* C6: whatever subset of the endpoints fails to collect, the loop does not
\* end on an exception; get_storagestats is invoked on the endpoints in list
\* order, once each, and on all of them by the end; an endpoint whose own
\* collection does not fail holds the values its own answer gave, and its
\* status and debug are untouched unless one of its own outputs failed.
C6_FailuresDoNotStopTheLoop ==
  OnlyForeseenFailures =>
    /\ pc # "crash"
    /\ polled = [k \in 1..Len(polled) |-> k]
    /\ pc = "done" => Len(polled) = Len(endpoints)
    /\ \A k \in 1..Len(polled) :
         (endpoints[k].cls = "DAVStorageStats"
            /\ Collectible(replies[k].answer)) =>
           /\ endpoints[k].stats.bytesused = replies[k].answer.body.used.n
           /\ endpoints[k].stats.bytesfree = replies[k].answer.body.avail.n
           /\ ( /\ options.output_memcached => replies[k].set_ok
                /\ options.output_stdout => replies[k].found )
                => (endpoints[k].status = StatusOK /\ endpoints[k].debug = << >>)

\* C11: when rfc4331 processes an answer with a status below 400 that carries
\* quota-used-bytes = U and quota-available-bytes = A > 0 and the quota setting
\* is 'api', the call returns normally with bytesused = U, bytesfree = A and
\* quota = U + A.
C11_ApiQuotaIsUsedPlusFree ==
  ( /\ CallOver
    /\ Rfc4331Values
    /\ LastAnswer.status_code < 400
    /\ LastAnswer.body.avail.n > 0
    /\ QuotaSetting.api ) =>
      /\ pc = "returned"
      /\ raised = NoError
      /\ Stats.bytesused = LastAnswer.body.used.n
      /\ Stats.bytesfree = LastAnswer.body.avail.n
      /\ Stats.quota = LastAnswer.body.used.n + LastAnswer.body.avail.n

\* C11: a first-attempt answer 207 with two different positive values has been
\* processed for a share with the quota setting 'api'
C11_Witness ==
  /\ pc = "returned"
  /\ Rfc4331Values
  /\ Len(reply.sends) = 1
  /\ LastAnswer.status_code = 207
  /\ LastAnswer.body.used.n = 2
  /\ LastAnswer.body.avail.n = 1
  /\ QuotaSetting.api
  /\ Stats.quota = 3

\* the answer rfc4331 got lacks one of the two quota fields: the element is
\* absent, or it is there with no text
LacksQuotaFields ==
  /\ reply.call = "rfc4331"
  /\ LastAnswer.kind = "Response"
  /\ LastAnswer.status_code < 400
  /\ LastAnswer.body.xml
  /\ \/ LastAnswer.body.used.kind # "text"
     \/ LastAnswer.body.avail.kind # "text"

\* C12: when the answer rfc4331 processes lacks quota-available-bytes or
\* quota-used-bytes, absent or empty, the call ends with ErrorDAVQuotaMethod
\* and with no other exception.
C12_MissingFieldsAreUnsupportedMethod ==
  (CallOver /\ LacksQuotaFields) => raised.kind = "ErrorDAVQuotaMethod"

\* the share as the collector received it: nothing collected yet
BeforeCall ==
  [storage_share EXCEPT
     !.stats = [bytesused |-> 0, bytesfree |-> 0, filecount |-> 0,
                quota |-> DefaultQuota]]

DAVCall == reply.call \in {"rfc4331", "list_files"}

\* C25: a call of rfc4331 or list_files sends one or two PROPFIND requests,
\* two exactly when the first ended in a TLS error; when the second ends in a
\* TLS error too the call raises the connection error with status code 092
\* and the share is as it was; when the second is answered, the share and the
\* exception are those of a call whose first request got that answer.
C25_AtMostOneRetryOnTLSError ==
  (CallOver /\ DAVCall) =>
    /\ requests_sent \in {1, 2}
    /\ Len(reply.sends) = requests_sent
    /\ (requests_sent = 2) <=> (reply.sends[1].kind = "SSLError")
    /\ (requests_sent = 2 /\ reply.sends[2].kind = "SSLError") =>
         /\ raised.kind = "DSSConnectionError"
         /\ raised.status_code = "092"
         /\ storage_share = BeforeCall
    /\ (requests_sent = 2 /\ reply.sends[2].kind = "Response") =>
         LET alone == dav_request(reply.call, BeforeCall,
                                  reply.sends[2], reply.sends[2])
         IN  /\ alone.sent = 1
             /\ storage_share = alone.share
             /\ raised = alone.raises

\* C25: list_files got a TLS error, then a 207 listing with bytes in it, and
\* returned
C25_Witness ==
  /\ pc = "returned"
  /\ reply.call = "list_files"
  /\ requests_sent = 2
  /\ reply.sends[1].kind = "SSLError"
  /\ reply.sends[2].kind = "Response"
  /\ reply.sends[2].status_code = 207
  /\ Stats.bytesused > 0

\* C26: when a DAV call for a share whose ssl_check is the path of a CA bundle
\* sent a second request to an endpoint whose certificate verifies under the
\* default trust store, that request was verified against the default trust
\* store, and it did not fail because the CA bundle lacks the issuer.
C26_RetryUsesDefaultTrustStore ==
  ( /\ CallOver
    /\ DAVCall
    /\ requests_sent = 2
    /\ storage_share.plugin_settings[SslKey] = CustomCA
    /\ DefaultStore \in trusted_by ) =>
      /\ reply.verify[2] = DefaultStore
      /\ CustomCA \notin trusted_by => raised.kind # "DSSConnectionError"

\* C27: when the answer a DAV call ends on has a status of 400 or above, the
\* call raises the connection error with that status code and the stats are
\* as they were.
C27_ErrorStatusRaisesConnectionError ==
  ( /\ CallOver
    /\ DAVCall
    /\ LastAnswer.kind = "Response"
    /\ LastAnswer.status_code >= 400 ) =>
      /\ raised.kind = "DSSConnectionError"
      /\ raised.status_code = LastAnswer.status_code
      /\ Stats = BeforeCall.stats

\* the entries of the listing a call of list_files or list_blobs ended on that
\* carry a length
CountedEntries ==
  LET HasLength(f) == f.kind = "text"
  IN  IF reply.call = "list_blobs" THEN LastAnswer.blobs
      ELSE IF LastAnswer.body.xml THEN SelectSeq(LastAnswer.body.lengths, HasLength)
      ELSE << >>

\* C30: after a call of list_files or list_blobs that returns normally on a
\* listing, bytesused is the sum of the lengths of the entries that carry one,
\* filecount is their number and quota is the configured quota.
C30_ListingSumsAndCounts ==
  ( /\ pc = "returned"
    /\ reply.call \in {"list_files", "list_blobs"}
    /\ LastAnswer.kind \in {"Response", "Blobs"} ) =>
      /\ Stats.bytesused = SumLengths(CountedEntries)
      /\ Stats.filecount = Len(CountedEntries)
      /\ ~QuotaSetting.api
      /\ Stats.quota = QuotaSetting.bytes

(***************************************************************************)
(* convert_size_to_bytes of ugrstoragestats.py.  A text is the sequence of *)
(* its characters.  Python integers have no width, and 1000**5 and 1024**5 *)
(* are beyond the integers of the checker, so a returned number is kept as *)
(* the pair of its factors: n * base**power.                               *)
(***************************************************************************)
MaxDigits == 2     \* characters in front of the unit

LowerOf ==
  [K |-> "k", M |-> "m", G |-> "g", T |-> "t", P |-> "p", I |-> "i",
   B |-> "b", A |-> "a", X |-> "x"]

\* str.lower()
Lower(c) == IF c \in DOMAIN LowerOf THEN LowerOf[c] ELSE c
ToLower(text) == [i \in DOMAIN text |-> Lower(text[i])]

\* str.endswith(suffix)
EndsWith(text, suffix) ==
  /\ Len(suffix) <= Len(text)
  /\ SubSeq(text, Len(text) - Len(suffix) + 1, Len(text)) = suffix

DigitValue ==
  [c \in {"0", "1", "2", "3", "4", "5", "6", "7", "8", "9"} |->
     CASE c = "0" -> 0 [] c = "1" -> 1 [] c = "2" -> 2 [] c = "3" -> 3
       [] c = "4" -> 4 [] c = "5" -> 5 [] c = "6" -> 6 [] c = "7" -> 7
       [] c = "8" -> 8 [] c = "9" -> 9]

IsDigit(c) == c \in DOMAIN DigitValue

\* the value of a run of digits
RECURSIVE DigitsValue(_)
DigitsValue(digits) ==
  IF digits = << >> THEN 0
  ELSE 10 * DigitsValue(SubSeq(digits, 1, Len(digits) - 1))
         + DigitValue[digits[Len(digits)]]

\* int(text) of Python 3: white space around the literal is dropped, one
\* sign may lead it, and single underscores may stand between digits;
\* anything else is a ValueError
int(text) ==
  LET stripped == Strip(text)
      signed == stripped # << >> /\ Head(stripped) \in {"+", "-"}
      literal == IF signed THEN Tail(stripped) ELSE stripped
      wellFormed ==
        /\ literal # << >>
        /\ \A i \in DOMAIN literal : IsDigit(literal[i]) \/ literal[i] = "_"
        /\ IsDigit(literal[1])
        /\ IsDigit(literal[Len(literal)])
        /\ \A i \in 1..(Len(literal) - 1) :
             ~(literal[i] = "_" /\ literal[i + 1] = "_")
      digits == SelectSeq(literal, IsDigit)
      magnitude == DigitsValue(digits)
  IN  IF ~wellFormed THEN [ok |-> FALSE, n |-> 0]
      ELSE [ok |-> TRUE,
            n |-> IF signed /\ Head(stripped) = "-" THEN 0 - magnitude
                  ELSE magnitude]

\* the dict multipliers, in the order it is written
multipliers ==
  << [suffix |-> <<"k", "i", "b">>, base |-> 1024, power |-> 1],
     [suffix |-> <<"m", "i", "b">>, base |-> 1024, power |-> 2],
     [suffix |-> <<"g", "i", "b">>, base |-> 1024, power |-> 3],
     [suffix |-> <<"t", "i", "b">>, base |-> 1024, power |-> 4],
     [suffix |-> <<"p", "i", "b">>, base |-> 1024, power |-> 5],
     [suffix |-> <<"k", "b">>, base |-> 1000, power |-> 1],
     [suffix |-> <<"m", "b">>, base |-> 1000, power |-> 2],
     [suffix |-> <<"g", "b">>, base |-> 1000, power |-> 3],
     [suffix |-> <<"t", "b">>, base |-> 1000, power |-> 4],
     [suffix |-> <<"p", "b">>, base |-> 1000, power |-> 5] >>

\* how a call ends: a number n * base**power, the ValueError of an int() that
\* no clause catches, or exit() after 'Malformed input!'
Number(n, base, power) ==
  [kind |-> "returned", n |-> n, base |-> base, power |-> power]
ValueError == [kind |-> "ValueError", n |-> 0, base |-> 1, power |-> 0]
SystemExit == [kind |-> "SystemExit", n |-> 0, base |-> 1, power |-> 0]

\* int(text) * base**power
Times(text, base, power) ==
  IF int(text).ok THEN Number(int(text).n, base, power) ELSE ValueError

convert_size_to_bytes(_size) ==
  LET hits == { k \in DOMAIN multipliers :
                  EndsWith(ToLower(_size), multipliers[k].suffix) }
  IN  IF hits # {}
      THEN LET k == CHOOSE h \in hits : \A o \in hits : h <= o
               suffix == multipliers[k].suffix
           IN  Times(SubSeq(_size, 1, Len(_size) - Len(suffix)),
                     multipliers[k].base, multipliers[k].power)
      ELSE IF EndsWith(ToLower(_size), <<"b">>)
      THEN Times(SubSeq(_size, 1, Len(_size) - 1), 1, 0)
      ELSE IF int(_size).ok THEN Number(int(_size).n, 1, 0)
      ELSE SystemExit

\* the texts handed to the function: up to MaxDigits characters, then a unit
\* in any letter case, or something that is no unit; a configuration value
\* arrives stripped of the white space around it
LeadingChars == {"0", "1", "5", " ", "_", "-", "+", ".", "x"}
UnitLetters == {"k", "m", "g", "t", "p", "i", "b", "K", "M", "G", "T", "P", "I", "B"}
Units == { multipliers[k].suffix : k \in DOMAIN multipliers } \cup { <<"b">> }
InAnyCase(unit) ==
  { t \in [1..Len(unit) -> UnitLetters] : ToLower(t) = unit }
Endings ==
  UNION { InAnyCase(u) : u \in Units }
    \cup { << >>, <<"x">>, <<"i", "b">>, <<"k">> }
Sizes ==
  { t \in { l \o e : l \in SeqsUpTo(LeadingChars, MaxDigits), e \in Endings } :
      Strip(t) = t }

InitConvert ==
  /\ pc = "convert_size_to_bytes"
  /\ raised = NoError
  /\ _storage_shares = << >>
  /\ LoaderIdle
  /\ AccountingIdle
  /\ CollectIdle
  /\ endpoints = << >>
  /\ options = << >>
  /\ cursor = 0
  /\ polled = << >>
  /\ replies = << >>
  /\ ugr_config = << >>
  /\ size \in Sizes
  /\ converted = << >>

call_convert_size_to_bytes ==
  /\ pc = "convert_size_to_bytes"
  /\ converted' = convert_size_to_bytes(size)
  /\ pc' = IF converted'.kind = "returned" THEN "returned" ELSE "raised"
  /\ UNCHANGED << raised, _storage_shares, loaderVars, collectVars, endpoints,
                  options, cursor, polled, replies, ugr_config, size,
                  accountingVars >>

NextConvert == call_convert_size_to_bytes

SpecConvert == InitConvert /\ [][NextConvert]_vars

\* the text is a decimal integer: digits, with or without a sign
DecimalInteger(text) ==
  LET literal == IF text # << >> /\ Head(text) \in {"+", "-"}
                 THEN Tail(text) ELSE text
  IN  literal # << >> /\ \A i \in DOMAIN literal : IsDigit(literal[i])

\* the number the digits of a decimal integer stand for
ValueOf(text) ==
  IF Head(text) = "-" THEN 0 - DigitsValue(Tail(text))
  ELSE IF Head(text) = "+" THEN DigitsValue(Tail(text))
  ELSE DigitsValue(text)

\* the multiplier the unit stands for: 1000**k or 1024**k, k the rank of
\* its first letter; 1 for b
UnitRank == [k |-> 1, m |-> 2, g |-> 3, t |-> 4, p |-> 5]
UnitMultiplier(unit) ==
  IF unit = <<"b">> THEN [base |-> 1, power |-> 0]
  ELSE [base |-> IF Len(unit) = 3 THEN 1024 ELSE 1000,
        power |-> UnitRank[unit[1]]]

\* the ways to read the text as a decimal integer followed by a unit
UnitReadings(text) ==
  { u \in Units : /\ EndsWith(ToLower(text), u)
                  /\ DecimalInteger(SubSeq(text, 1, Len(text) - Len(u))) }

\* C16: a decimal integer n followed by a unit in any letter case gives n
\* times the multiplier of the unit; a bare decimal integer gives itself;
\* every other text makes the call fail.
C16_UnitsBareIntegersElseFailure ==
  pc # "convert_size_to_bytes" =>
    /\ \A u \in UnitReadings(size) :
         LET n == ValueOf(SubSeq(size, 1, Len(size) - Len(u)))
         IN  converted = Number(n, UnitMultiplier(u).base, UnitMultiplier(u).power)
    /\ DecimalInteger(size) => converted = Number(ValueOf(size), 1, 0)
    /\ (UnitReadings(size) = {} /\ ~DecimalInteger(size))
         => converted.kind # "returned"

(***************************************************************************)
(* A whole run of ugrstoragestats.py on one configuration: get_endpoints   *)
(* builds the objects, validate_plugin_options checks their options, the   *)
(* loop polls them.                                                        *)
(*                                                                         *)
(* Values of plugin_options.  The quota is kept as before: the text 'api'  *)
(* is [api |-> TRUE, bytes |-> 0] and an integer n is [api |-> FALSE,      *)
(* bytes |-> n]; any other text t is [api |-> FALSE, bytes |-> t,          *)
(* str |-> TRUE].  The other options are strings, and TRUE and FALSE once  *)
(* validation has made them boolean.  self.validators is read in the order *)
(* it is written, which is the order of a dict from Python 3.7 on.         *)
(***************************************************************************)
MaxPages == 2        \* answers to list_objects in one listing

api == <<"a", "p", "i">>

\* a text read from the configuration, as a value of the quota option
PyStr(text) ==
  IF text = api THEN [api |-> TRUE, bytes |-> 0]
  ELSE [api |-> FALSE, bytes |-> text, str |-> TRUE]

PyInt(n) == [api |-> FALSE, bytes |-> n]

IsStr(value) == "str" \in DOMAIN value

\* a number of bytes in the unit of the stats, 1000**3 bytes
InUnits(number) ==
  IF number.base = 1000 /\ number.power >= 3
  THEN number.n * 1000 ^ (number.power - 3)
  ELSE 0

\* str.lower() on the words the options hold
lower(word) ==
  CASE word = "TRUE" -> "true"
    [] word = "FALSE" -> "false"
    [] word = "Generic" -> "generic"
    [] OTHER -> word

\* the entries of self.validators
Validator(option, required, default, valid, boolean) ==
  [option |-> option, required |-> required, default |-> default,
   has_valid |-> valid # {}, valid |-> valid, boolean |-> boolean]

StorageStats_validators ==
  << Validator(<<"quota">>, FALSE, PyStr(api), {}, FALSE),
     Validator(<<"ssl_check">>, FALSE, TRUE,
               {"true", "false", "yes", "no"}, TRUE) >>

S3StorageStats_validators ==
  StorageStats_validators \o
  << Validator(<<"s3", "alternate">>, FALSE, "false",
               {"true", "false", "yes", "no"}, FALSE),
     Validator(<<"s3", "api">>, TRUE, "generic",
               {"ceph-admin", "generic"}, FALSE),
     Validator(<<"s3", "priv_key">>, TRUE, "", {}, FALSE),
     Validator(<<"s3", "pub_key">>, TRUE, "", {}, FALSE),
     Validator(<<"s3", "region">>, TRUE, "us-east-1", {}, FALSE),
     Validator(<<"s3", "signature_ver">>, FALSE, "s3v4",
               {"s3", "s3v4"}, FALSE) >>

DAVStorageStats_validators ==
  StorageStats_validators \o
  << Validator(<<"cli_certificate">>, TRUE, "", {}, FALSE),
     Validator(<<"cli_private_key">>, TRUE, "", {}, FALSE) >>

\* the for loop of validate_plugin_options, from the k-th validator on.  The
\* call UGRConfigFileErrorInvalidOption(..., valid_options=...) names a
\* parameter the class does not have: it is a TypeError.
RECURSIVE validate_options_from(_, _, _)
validate_options_from(self, validators, k) ==
  IF k > Len(validators) THEN [self |-> self, raises |-> NoError]
  ELSE
    LET v == validators[k]
        ep_option == v.option
    IN  IF ep_option \notin DOMAIN self.plugin_options
        THEN IF v.required
             THEN [self |-> [self EXCEPT !.plugin_options =
                               DictUpdate(@, ep_option, "")],
                   raises |-> UGRError("UGRConfigFileErrorMissingRequiredOption",
                                       "UGRConfigFileError",
                                       "MissingRequiredOption", "000", "None")]
             ELSE LET WARN == UGRWarning("UGRConfigFileWarningMissingOption",
                                         "UGRConfigFileWarning",
                                         "MissingOption", "000", "None")
                  IN  validate_options_from(
                        [self EXCEPT !.debug = Append(@, WARN.debug),
                                     !.status = WARN.message,
                                     !.plugin_options =
                                        DictUpdate(@, ep_option, v.default)],
                        validators, k + 1)
        ELSE IF ~v.has_valid
        THEN validate_options_from(self, validators, k + 1)
        ELSE IF self.plugin_options[ep_option] \notin v.valid
        THEN [self |-> self, raises |-> Uncaught("TypeError")]
        ELSE IF ~v.boolean
        THEN validate_options_from(self, validators, k + 1)
        ELSE validate_options_from(
               [self EXCEPT !.plugin_options[ep_option] =
                  ~(lower(@) \in {"false", "no"})],
               validators, k + 1)

\* lines 545-546 once convert_size_to_bytes has ended
quota_in_bytes(self, bytes) ==
  IF bytes.kind = "returned"
  THEN [self |-> [self EXCEPT !.plugin_options[<<"quota">>] =
                    PyInt(InUnits(bytes))],
        raises |-> NoError]
  ELSE [self |-> self, raises |-> Uncaught(bytes.kind)]

\* lines 545-546: a quota other than "api" as written goes to
\* convert_size_to_bytes
validate_quota(self) ==
  IF self.plugin_options[<<"quota">>].api
  THEN [self |-> self, raises |-> NoError]
  ELSE quota_in_bytes(self,
         convert_size_to_bytes(self.plugin_options[<<"quota">>].bytes))

\* lines 537-543: with ssl_check on, a ca_path takes its place
validate_ca_path(self) ==
  IF self.plugin_options[<<"ssl_check">>]
     /\ <<"ca_path">> \in DOMAIN self.plugin_options
  THEN [self EXCEPT !.plugin_options[<<"ssl_check">>] =
          self.plugin_options[<<"ca_path">>]]
  ELSE self

\* what follows the for loop, unless it raised
after_validators(looped) ==
  IF looped.raises # NoError THEN looped
  ELSE validate_quota(validate_ca_path(looped.self))

validate_plugin_options(self, validators) ==
  after_validators(validate_options_from(self, validators, 1))

\* the try around validate_plugin_options in the two constructors
except_UGRConfigFileError(v) ==
  IF v.raises # NoError /\ v.raises.base = "UGRConfigFileError"
  THEN [self |-> [v.self EXCEPT !.debug = Append(@, v.raises.debug),
                                !.status = v.raises.message],
        raises |-> NoError]
  ELSE v

\* the constructor of a class of plugin_dict up to the end of its try: the
\* exception of validate_schema leaves StorageStats.__init__ and the
\* constructor
validated(cls, _ep, validators) ==
  IF validate_schema(cls, _ep).raises # NoError
  THEN [self |-> << >>, raises |-> validate_schema(cls, _ep).raises]
  ELSE except_UGRConfigFileError(
         validate_plugin_options(StorageStats_init(cls, _ep), validators))

DAVStorageStats_init(_ep) ==
  validated("DAVStorageStats", _ep, DAVStorageStats_validators)

\* after the validation the constructor reads s3.alternate
read_s3_alternate(v) ==
  IF v.raises = NoError
     /\ <<"s3", "alternate">> \notin DOMAIN v.self.plugin_options
  THEN [self |-> v.self, raises |-> Uncaught("KeyError")]
  ELSE v

S3StorageStats_init(_ep) ==
  read_s3_alternate(validated("S3StorageStats", _ep, S3StorageStats_validators))

\* factory of ugrstoragestats.py
plugin_dict ==
  [p \in { "libugrlocplugin_dav.so", "libugrlocplugin_http.so",
           "libugrlocplugin_s3.so" } |->
     IF p = "libugrlocplugin_s3.so" THEN "S3StorageStats"
     ELSE "DAVStorageStats"]

\* one turn of the loop of get_endpoints; StorageStats.__init__ reads
\* _ep['plugin_options'] whatever the class
storage_object(_ep) ==
  IF ~_ep.has_plugin_options
  THEN [self |-> << >>, raises |-> Uncaught("KeyError")]
  ELSE IF _ep.plugin \notin DOMAIN plugin_dict
  THEN [self |-> Placeholder(_ep), raises |-> NoError]
  ELSE IF plugin_dict[_ep.plugin] = "S3StorageStats"
  THEN S3StorageStats_init(_ep)
  ELSE DAVStorageStats_init(_ep)

\* endpoints.append(ep), unless an exception has ended the loop
endpoints_append(before, ep) ==
  IF before.raises # NoError THEN before
  ELSE IF ep.raises # NoError
  THEN [objects |-> before.objects, raises |-> ep.raises]
  ELSE [objects |-> Append(before.objects, ep.self), raises |-> NoError]

\* the list get_endpoints builds from the first k records, or the exception
\* that ended it
RECURSIVE storage_objects(_, _)
storage_objects(config, k) ==
  IF k = 0 THEN [objects |-> << >>, raises |-> NoError]
  ELSE endpoints_append(storage_objects(config, k - 1),
                        storage_object(config[k]))

\* what the endpoint of S3StorageStats.get_storagestats answers.  ceph-admin:
\* the GET fails, or the body is no JSON, or it has no 'usage', or it has the
\* bucket stats.
Usages ==
  { [empty |-> TRUE, size_utilized |-> 0] } \cup
  { [empty |-> FALSE, size_utilized |-> n] : n \in 0..MaxReported }

CephAnswers ==
  { [kind |-> k] : k \in {"ConnectionError", "NotJSON", "NoUsage"} } \cup
  { [kind |-> "Stats", usage |-> u, enabled |-> e, max_size |-> MaxReported + 1] :
      u \in Usages, e \in {"True", "False", "None"} }

\* generic: each call of list_objects fails or gives a page; the listing goes
\* on while the pages have 'Contents' and 'NextMarker'
ListedPages ==
  { [kind |-> "Page", has_contents |-> FALSE, sizes |-> << >>,
     has_next |-> n] : n \in BOOLEAN } \cup
  { [kind |-> "Page", has_contents |-> TRUE, sizes |-> l, has_next |-> n] :
      l \in SeqsUpTo(1..MaxReported, MaxEntries), n \in BOOLEAN }

ListingCalls ==
  { [kind |-> "ClientError", has_contents |-> FALSE, sizes |-> << >>,
     has_next |-> FALSE],
    [kind |-> "BotoCoreError", has_contents |-> FALSE, sizes |-> << >>,
     has_next |-> FALSE] } \cup ListedPages

GoesOn(call) == call.kind = "Page" /\ call.has_contents /\ call.has_next

GenericAnswers ==
  { [kind |-> "Listing", calls |-> c] :
      c \in { l \in SeqsUpTo(ListingCalls, MaxPages) :
                /\ l # << >>
                /\ \A i \in 1..(Len(l) - 1) : GoesOn(l[i])
                /\ ~GoesOn(l[Len(l)]) } }

\* total_bytes += content['Size'] over the contents of a page
RECURSIVE SumSizes(_)
SumSizes(sizes) ==
  IF sizes = << >> THEN 0 ELSE Head(sizes) + SumSizes(Tail(sizes))

\* a loop that leaves at the end of its first turn, whatever the page holds
list_objects_first_page_only(calls, i, total_bytes, total_files) ==
  LET response == calls[i]
  IN  IF response.kind # "Page"
      THEN [raises |-> UGRError("UGRStorageStatsConnectionError",
                                "UGRStorageStatsError", response.kind,
                                IF response.kind = "ClientError" THEN "403"
                                ELSE "000",
                                response.kind),
            total_bytes |-> total_bytes, total_files |-> total_files,
            requests |-> i]
      ELSE [raises |-> NoError,
            total_bytes |-> total_bytes + SumSizes(response.sizes),
            total_files |-> total_files + Len(response.sizes),
            requests |-> i]

\* the while loop of the generic branch, from the i-th call on.  A marker is
\* the place of the page it asks for: kwargs['Marker'] = response['NextMarker']
\* makes the next call the one for the page i + 1.  requests is the number of
\* calls of connection.list_objects the loop has made when it ends.
RECURSIVE list_objects(_, _, _, _)
list_objects(calls, i, total_bytes, total_files) ==
  LET response == calls[i]
  IN  IF response.kind # "Page"
      THEN [raises |-> UGRError("UGRStorageStatsConnectionError",
                                "UGRStorageStatsError", response.kind,
                                IF response.kind = "ClientError" THEN "403"
                                ELSE "000",
                                response.kind),
            total_bytes |-> total_bytes, total_files |-> total_files,
            requests |-> i]
      ELSE IF ~response.has_contents
      THEN [raises |-> NoError, total_bytes |-> total_bytes,
            total_files |-> total_files, requests |-> i]
      ELSE LET bytes == total_bytes + SumSizes(response.sizes)
               files == total_files + Len(response.sizes)
           IN  IF response.has_next
               THEN list_objects(calls, i + 1, bytes, files)
               ELSE [raises |-> NoError, total_bytes |-> bytes,
                     total_files |-> files, requests |-> i]

OneTB == InUnits(convert_size_to_bytes(<<"1", "T", "B">>))

\* S3StorageStats.get_storagestats with the stats of the warning branches
\* left as they were
S3StorageStats_get_storagestats_warn_only(self, answer) ==
  LET s3api == lower(self.plugin_options[<<"s3", "api">>])
      quota == self.plugin_options[<<"quota">>]
      NoQuotaGiven == UGRWarning("UGRStorageStatsQuotaWarning",
                                 "UGRStorageStatsWarning", "NoQuotaGiven",
                                 "000", "None")
  IN  IF s3api = "ceph-admin"
      THEN IF answer.kind = "ConnectionError"
           THEN [self |-> self,
                 raises |-> UGRError("UGRStorageStatsConnectionError",
                                     "UGRStorageStatsError", "ConnectionError",
                                     "000", "ConnectionError")]
           ELSE IF answer.kind = "NotJSON"
           THEN [self |-> self,
                 raises |-> UGRError("UGRStorageStatsConnectionErrorS3API",
                                     "UGRStorageStatsError", "NoContent", "200",
                                     "content")]
           ELSE IF answer.kind = "NoUsage"
           THEN [self |-> self,
                 raises |-> UGRError("UGRStorageStatsErrorS3MissingBucketUsage",
                                     "UGRStorageStatsError", "Code", "200",
                                     "stats")]
           ELSE
             LET used == IF answer.usage.empty THEN self
                         ELSE [self EXCEPT !.stats.bytesused =
                                 answer.usage.size_utilized]
             IN  IF ~quota.api
                 THEN IF IsStr(quota)
                      THEN [self |-> [used EXCEPT !.stats.quota = quota.bytes],
                            raises |-> Uncaught("TypeError")]
                      ELSE [self |-> [used EXCEPT
                                        !.stats.quota = quota.bytes,
                                        !.stats.bytesfree =
                                           quota.bytes - used.stats.bytesused],
                            raises |-> NoError]
                 ELSE IF answer.enabled = "True"
                 THEN [self |-> [used EXCEPT
                                   !.stats.quota = answer.max_size,
                                   !.stats.bytesfree =
                                      answer.max_size - used.stats.bytesused],
                       raises |-> NoError]
                 ELSE IF answer.enabled = "False"
                 THEN [self |-> used,
                       raises |-> UGRWarning(
                                    "UGRStorageStatsCephS3QuotaDisabledWarning",
                                    "UGRStorageStatsWarning",
                                    "BucketQuotaDisabled", "000", "None")]
                 ELSE [self |-> used, raises |-> NoQuotaGiven]
      ELSE IF s3api = "generic"
      THEN LET listed == list_objects(answer.calls, 1, 0, 0)
               used == [self EXCEPT !.stats.bytesused = listed.total_bytes]
           IN  IF listed.raises # NoError
               THEN [self |-> self, raises |-> listed.raises]
               ELSE IF quota.api
               THEN [self |-> used, raises |-> NoQuotaGiven]
               ELSE IF IsStr(quota)
               THEN [self |-> [used EXCEPT !.stats.quota = quota.bytes,
                                           !.stats.files = listed.total_files],
                     raises |-> Uncaught("TypeError")]
               ELSE [self |-> [used EXCEPT
                                 !.stats.quota = quota.bytes,
                                 !.stats.files = listed.total_files,
                                 !.stats.bytesfree =
                                    quota.bytes - used.stats.bytesused],
                     raises |-> NoError]
      ELSE [self |-> self, raises |-> NoError]

S3StorageStats_get_storagestats(self, answer) ==
  LET s3api == lower(self.plugin_options[<<"s3", "api">>])
      quota == self.plugin_options[<<"quota">>]
      NoQuotaGiven == UGRWarning("UGRStorageStatsQuotaWarning",
                                 "UGRStorageStatsWarning", "NoQuotaGiven",
                                 "000", "None")
  IN  IF s3api = "ceph-admin"
      THEN IF answer.kind = "ConnectionError"
           THEN [self |-> self,
                 raises |-> UGRError("UGRStorageStatsConnectionError",
                                     "UGRStorageStatsError", "ConnectionError",
                                     "000", "ConnectionError")]
           ELSE IF answer.kind = "NotJSON"
           THEN [self |-> self,
                 raises |-> UGRError("UGRStorageStatsConnectionErrorS3API",
                                     "UGRStorageStatsError", "NoContent", "200",
                                     "content")]
           ELSE IF answer.kind = "NoUsage"
           THEN [self |-> self,
                 raises |-> UGRError("UGRStorageStatsErrorS3MissingBucketUsage",
                                     "UGRStorageStatsError", "Code", "200",
                                     "stats")]
           ELSE
             LET used == IF answer.usage.empty THEN self
                         ELSE [self EXCEPT !.stats.bytesused =
                                 answer.usage.size_utilized]
                 default == [used EXCEPT
                               !.stats.quota = OneTB,
                               !.stats.bytesfree = OneTB - used.stats.bytesused]
             IN  IF ~quota.api
                 THEN IF IsStr(quota)
                      THEN [self |-> [used EXCEPT !.stats.quota = quota.bytes],
                            raises |-> Uncaught("TypeError")]
                      ELSE [self |-> [used EXCEPT
                                        !.stats.quota = quota.bytes,
                                        !.stats.bytesfree =
                                           quota.bytes - used.stats.bytesused],
                            raises |-> NoError]
                 ELSE IF answer.enabled = "True"
                 THEN [self |-> [used EXCEPT
                                   !.stats.quota = answer.max_size,
                                   !.stats.bytesfree =
                                      answer.max_size - used.stats.bytesused],
                       raises |-> NoError]
                 ELSE IF answer.enabled = "False"
                 THEN [self |-> default,
                       raises |-> UGRWarning(
                                    "UGRStorageStatsCephS3QuotaDisabledWarning",
                                    "UGRStorageStatsWarning",
                                    "BucketQuotaDisabled", "000", "None")]
                 ELSE [self |-> default, raises |-> NoQuotaGiven]
      ELSE IF s3api = "generic"
      THEN LET listed == list_objects(answer.calls, 1, 0, 0)
               used == [self EXCEPT !.stats.bytesused = listed.total_bytes]
           IN  IF listed.raises # NoError
               THEN [self |-> self, raises |-> listed.raises]
               ELSE IF quota.api
               THEN [self |-> [used EXCEPT
                                 !.stats.quota = OneTB,
                                 !.stats.files = listed.total_files,
                                 !.stats.bytesfree =
                                    OneTB - used.stats.bytesused],
                     raises |-> NoQuotaGiven]
               ELSE IF IsStr(quota)
               THEN [self |-> [used EXCEPT !.stats.quota = quota.bytes,
                                           !.stats.files = listed.total_files],
                     raises |-> Uncaught("TypeError")]
               ELSE [self |-> [used EXCEPT
                                 !.stats.quota = quota.bytes,
                                 !.stats.files = listed.total_files,
                                 !.stats.bytesfree =
                                    quota.bytes - used.stats.bytesused],
                     raises |-> NoError]
      ELSE [self |-> self, raises |-> NoError]

\* the endpoint is asked only in the two branches of the API
S3Answers(self) ==
  LET s3api == lower(self.plugin_options[<<"s3", "api">>])
  IN  IF s3api = "ceph-admin" THEN CephAnswers
      ELSE IF s3api = "generic" THEN GenericAnswers
      ELSE { [kind |-> "NotAsked"] }

\* the configurations of a run: what get_config returns
Maybe(option, values) == { EmptyDict } \cup { (option :> v) : v \in values }

Present(option, value) == (option :> value)

QuotaTexts == { api, <<"A", "P", "I">>, <<"1", "t", "b">> }

DAVPluginOptions ==
  { q @@ s @@ c @@ Present(<<"cli_private_key">>, "/k.pem") :
      q \in Maybe(<<"quota">>, { PyStr(t) : t \in QuotaTexts }),
      s \in Maybe(<<"ssl_check">>, {"true", "TRUE"}),
      c \in Maybe(<<"cli_certificate">>, {"/c.pem"}) }

S3PluginOptions ==
  { q @@ a @@ Present(<<"ssl_check">>, "true")
      @@ Present(<<"s3", "alternate">>, "false")
      @@ Present(<<"s3", "priv_key">>, "k") @@ Present(<<"s3", "pub_key">>, "p")
      @@ Present(<<"s3", "region">>, "us-east-1")
      @@ Present(<<"s3", "signature_ver">>, "s3v4") :
      q \in Maybe(<<"quota">>, { PyStr(api), PyStr(<<"1", "t", "b">>) }),
      a \in Maybe(<<"s3", "api">>, {"generic", "ceph-admin", "aws"}) }

\* the records of a run; their URLs are https ones, the other schemes are
\* drawn by SchemeRecords
ConfigRecords(id) ==
  { [id |-> id, plugin |-> "libugrlocplugin_dav.so",
     scheme |-> "https", has_plugin_options |-> TRUE, plugin_options |-> o] :
      o \in DAVPluginOptions } \cup
  { [id |-> id, plugin |-> "libugrlocplugin_s3.so",
     scheme |-> "https", has_plugin_options |-> TRUE, plugin_options |-> o] :
      o \in S3PluginOptions } \cup
  { [id |-> id, plugin |-> "libugrlocplugin_lfc.so",
     scheme |-> "https", has_plugin_options |-> TRUE,
     plugin_options |-> Present(<<"quota">>, PyStr(api))],
    [id |-> id, plugin |-> "libugrlocplugin_dav.so",
     scheme |-> "https", has_plugin_options |-> FALSE,
     plugin_options |-> EmptyDict] }

\* A share whose every option is written out with an accepted value, one for each
\* kind of plugin line.
Companions(id) ==
  { [id |-> id, plugin |-> "libugrlocplugin_dav.so", scheme |-> "https",
     has_plugin_options |-> TRUE,
     plugin_options |-> Present(<<"quota">>, PyStr(api))
       @@ Present(<<"ssl_check">>, "true")
       @@ Present(<<"cli_certificate">>, "/c.pem")
       @@ Present(<<"cli_private_key">>, "/k.pem")],
    [id |-> id, plugin |-> "libugrlocplugin_s3.so", scheme |-> "https",
     has_plugin_options |-> TRUE,
     plugin_options |-> Present(<<"quota">>, PyStr(<<"1", "t", "b">>))
       @@ Present(<<"s3", "api">>, "generic")
       @@ Present(<<"ssl_check">>, "true")
       @@ Present(<<"s3", "alternate">>, "false")
       @@ Present(<<"s3", "priv_key">>, "k") @@ Present(<<"s3", "pub_key">>, "p")
       @@ Present(<<"s3", "region">>, "us-east-1")
       @@ Present(<<"s3", "signature_ver">>, "s3v4")],
    [id |-> id, plugin |-> "libugrlocplugin_s3.so", scheme |-> "https",
     has_plugin_options |-> TRUE,
     plugin_options |-> Present(<<"quota">>, PyStr(api))
       @@ Present(<<"s3", "api">>, "ceph-admin")
       @@ Present(<<"ssl_check">>, "true")
       @@ Present(<<"s3", "alternate">>, "false")
       @@ Present(<<"s3", "priv_key">>, "k") @@ Present(<<"s3", "pub_key">>, "p")
       @@ Present(<<"s3", "region">>, "us-east-1")
       @@ Present(<<"s3", "signature_ver">>, "s3v4")],
    [id |-> id, plugin |-> "libugrlocplugin_lfc.so", scheme |-> "https",
     has_plugin_options |-> TRUE,
     plugin_options |-> Present(<<"quota">>, PyStr(api))] }

\* The configurations of the runs: up to MaxEndpoints shares, of which one is any
\* of ConfigRecords and the others are of Companions.
Configurations ==
  UNION { UNION { { l \in [1..n -> UNION { ConfigRecords(EndpointIDs[k]) : k \in 1..n }] :
                      \A k \in 1..n :
                        /\ l[k].id = EndpointIDs[k]
                        /\ k # j => l[k] \in Companions(EndpointIDs[k]) } :
                    j \in 1..n } :
          n \in 1..MaxEndpoints }

InitRun ==
  /\ pc = "get_endpoints"
  /\ raised = NoError
  /\ _storage_shares = << >>
  /\ LoaderIdle
  /\ AccountingIdle
  /\ CollectIdle
  /\ ParserIdle
  /\ ugr_config \in Configurations
  /\ options \in [output_memcached : BOOLEAN, output_stdout : BOOLEAN]
  /\ endpoints = << >>
  /\ cursor = 0
  /\ polled = << >>
  /\ replies = << >>

\* endpoints = get_endpoints(options): the list, or the end of the program
get_endpoints_returns(built) ==
  /\ raised' = built.raises
  /\ IF built.raises # NoError
     THEN /\ pc' = "crash"
          /\ endpoints' = << >>
          /\ cursor' = cursor
     ELSE /\ pc' = "loop"
          /\ endpoints' = built.objects
          /\ cursor' = 1

get_endpoints ==
  /\ pc = "get_endpoints"
  /\ get_endpoints_returns(storage_objects(ugr_config, Len(ugr_config)))
  /\ UNCHANGED << options, polled, replies, ugr_config, parserVars,
                  loaderVars, collectVars, accountingVars >>

dispatch_S3StorageStats ==
  /\ pc = "loop"
  /\ endpoints[cursor].cls = "S3StorageStats"
  /\ \E answer \in S3Answers(endpoints[cursor]), set_ok \in SetOutcomes,
        found \in GetOutcomes :
       Turn(answer, set_ok, found,
            loop_body(S3StorageStats_get_storagestats(endpoints[cursor], answer),
                      options, set_ok, found))

NextRun ==
  \/ get_endpoints
  \/ dispatch_DAVStorageStats
  \/ dispatch_S3StorageStats
  \/ dispatch_StorageStats

SpecRun == InitRun /\ [][NextRun]_vars

(***************************************************************************)
(* What a record of the configuration asks for, read off the record.       *)
(***************************************************************************)
ValidatorsOf(_ep) ==
  IF plugin_dict[_ep.plugin] = "S3StorageStats" THEN S3StorageStats_validators
  ELSE DAVStorageStats_validators

\* the plugin has a class and the record has options
Configured(_ep) == _ep.plugin \in DOMAIN plugin_dict /\ _ep.has_plugin_options

MissingRequired(_ep) ==
  \E k \in DOMAIN ValidatorsOf(_ep) :
    /\ ValidatorsOf(_ep)[k].required
    /\ ValidatorsOf(_ep)[k].option \notin DOMAIN _ep.plugin_options

MissingOptional(_ep) ==
  \E k \in DOMAIN ValidatorsOf(_ep) :
    /\ ~ValidatorsOf(_ep)[k].required
    /\ ValidatorsOf(_ep)[k].option \notin DOMAIN _ep.plugin_options

\* a value that is in the allowed set of its option as it is written
ExactMember(_ep, v) ==
  v.option \in DOMAIN _ep.plugin_options
    => _ep.plugin_options[v.option] \in v.valid

\* a value that is in the allowed set of its option whatever its letter case
MemberInAnyCase(_ep, v) ==
  v.option \in DOMAIN _ep.plugin_options
    => lower(_ep.plugin_options[v.option]) \in v.valid

Restricted(_ep) ==
  { ValidatorsOf(_ep)[k] : k \in { i \in DOMAIN ValidatorsOf(_ep) :
                                     ValidatorsOf(_ep)[i].has_valid } }

\* the quota option is absent, 'api' as written, or a size the parser reads
PlainQuota(_ep) ==
  <<"quota">> \in DOMAIN _ep.plugin_options =>
    LET quota == _ep.plugin_options[<<"quota">>]
    IN  quota.api \/ convert_size_to_bytes(quota.bytes).kind = "returned"

\* a share nothing is wrong with, in the strictest reading
Sound(_ep) ==
  /\ Configured(_ep)
  /\ ~MissingRequired(_ep)
  /\ \A v \in Restricted(_ep) : ExactMember(_ep, v)
  /\ PlainQuota(_ep)

\* a share whose validation has to fail: a required option is absent, or a
\* value is in its allowed set in no letter case; its other values are in
\* their sets as written and its quota is plain
Degraded(_ep) ==
  /\ Configured(_ep)
  /\ PlainQuota(_ep)
  /\ \A v \in Restricted(_ep) :
       ExactMember(_ep, v) \/ ~MemberInAnyCase(_ep, v)
  /\ \/ MissingRequired(_ep)
     \/ \E v \in Restricted(_ep) : ~MemberInAnyCase(_ep, v)

\* the collection of the polled endpoint k raised neither error nor warning
CleanCollection(k) ==
  LET answer == replies[k].answer
      quota == endpoints[k].plugin_options[<<"quota">>]
  IN  \/ endpoints[k].cls = "DAVStorageStats" /\ Collectible(answer)
      \/ /\ endpoints[k].cls = "S3StorageStats"
         /\ \/ /\ answer.kind = "Listing"
               /\ \A i \in DOMAIN answer.calls : answer.calls[i].kind = "Page"
               /\ ~quota.api
            \/ /\ answer.kind = "Stats"
               /\ ~quota.api \/ answer.enabled = "True"

\* the outputs of the polled endpoint k did not fail
CleanOutput(k) ==
  /\ options.output_memcached => replies[k].set_ok
  /\ options.output_stdout => replies[k].found

\* the collection of the polled S3 endpoint k ended in one of the two warnings
NoQuotaGivenAt(k) ==
  /\ endpoints[k].cls = "S3StorageStats"
  /\ replies[k].answer.kind = "Listing"
  /\ \A i \in DOMAIN replies[k].answer.calls :
       replies[k].answer.calls[i].kind = "Page"
  /\ endpoints[k].plugin_options[<<"quota">>].api

QuotaDisabledAt(k) ==
  /\ endpoints[k].cls = "S3StorageStats"
  /\ replies[k].answer.kind = "Stats"
  /\ replies[k].answer.enabled = "False"
  /\ endpoints[k].plugin_options[<<"quota">>].api

\* the bytes the answer reported
RECURSIVE ListedBytes(_)
ListedBytes(calls) ==
  IF calls = << >> THEN 0
  ELSE SumSizes(Head(calls).sizes) + ListedBytes(Tail(calls))

ReportedBytes(answer) ==
  IF answer.kind = "Listing" THEN ListedBytes(answer.calls)
  ELSE IF answer.usage.empty THEN 0 ELSE answer.usage.size_utilized

WarningOf(k) ==
  IF NoQuotaGivenAt(k) THEN <<"WARN", "NoQuotaGiven", "000">>
  ELSE <<"WARN", "BucketQuotaDisabled", "000">>

\* C13: when the collection of an S3 endpoint ends in the no-quota-given
\* warning (generic listing, quota 'api') or in the quota-disabled warning
\* (ceph-admin, bucket quota disabled), the endpoint holds the bytes the
\* answer reported, the quota of 1 TB and bytesfree = quota - bytesused; the
\* loop goes on, the warning is in debug, and it is the status unless an
\* output of the endpoint failed afterwards.
C13_WarningKeepsCollectedStats ==
  \A k \in 1..Len(polled) :
    (NoQuotaGivenAt(k) \/ QuotaDisabledAt(k)) =>
      /\ endpoints[k].stats.bytesused = ReportedBytes(replies[k].answer)
      /\ endpoints[k].stats.quota = DefaultQuota
      /\ endpoints[k].stats.bytesfree =
           DefaultQuota - ReportedBytes(replies[k].answer)
      /\ ~(pc = "crash" /\ cursor = k)
      /\ \E i \in DOMAIN endpoints[k].debug :
           endpoints[k].debug[i] = WarningOf(k)
      /\ CleanOutput(k) => endpoints[k].status = WarningOf(k)

\* C13: a run polled a generic endpoint whose two-page listing held bytes and
\* then a ceph-admin endpoint with used bytes and the bucket quota disabled
C13_Witness ==
  /\ pc = "done"
  /\ Len(polled) = 2
  /\ NoQuotaGivenAt(1)
  /\ Len(replies[1].answer.calls) = 2
  /\ endpoints[1].stats.bytesused > 1
  /\ QuotaDisabledAt(2)
  /\ endpoints[2].stats.bytesused > 0
  /\ endpoints[2].status = <<"WARN", "BucketQuotaDisabled", "000">>

\* C14: a share whose validation has to fail is kept in the list with an error
\* as status and in debug, provided no other share stops the construction;
\* when the loop comes to it no endpoint is asked and its stats stay as
\* built, and the loop does not end on it.
C14_DegradedShareKeptAndNotPolled ==
  \A k \in DOMAIN ugr_config :
    ( /\ Degraded(ugr_config[k])
      /\ \A j \in DOMAIN ugr_config \ {k} : Sound(ugr_config[j]) ) =>
        /\ pc # "get_endpoints" =>
             /\ Len(endpoints) = Len(ugr_config)
             /\ endpoints[k].id = ugr_config[k].id
             /\ endpoints[k].status[1] = "ERROR"
             /\ \E i \in DOMAIN endpoints[k].debug :
                  endpoints[k].debug[i][1] = "ERROR"
        /\ k \in 1..Len(polled) =>
             /\ replies[k].answer.kind = "NotAsked"
             /\ endpoints[k].stats =
                  StorageStats_init("StorageStats", ugr_config[k]).stats
             /\ ~(pc = "crash" /\ cursor = k)

\* C15: with every required option there and a plain quota, the construction
\* takes each value that is in its allowed set in some letter case and the
\* share is not in error; a share with a value that is in the set in no
\* letter case is kept with the invalid-option error as status.
C15_AllowedValuesInAnyCase ==
  ( /\ pc # "get_endpoints"
    /\ \A j \in DOMAIN ugr_config :
         /\ Configured(ugr_config[j])
         /\ ~MissingRequired(ugr_config[j])
         /\ PlainQuota(ugr_config[j]) ) =>
      /\ Len(endpoints) = Len(ugr_config)
      /\ \A k \in DOMAIN ugr_config :
           IF \A v \in Restricted(ugr_config[k]) : MemberInAnyCase(ugr_config[k], v)
           THEN Len(polled) < k => endpoints[k].status[1] # "ERROR"
           ELSE Len(polled) < k =>
                  endpoints[k].status = <<"ERROR", "InvalidOption", "000">>

\* the quota option of the record is 'api' in some letter case
ApiInAnyCase(_ep) ==
  /\ <<"quota">> \in DOMAIN _ep.plugin_options
  /\ LET quota == _ep.plugin_options[<<"quota">>]
     IN  quota.api \/ ToLower(quota.bytes) = api

\* C17: a quota of 'api' in any letter case on an otherwise sound share is
\* never handed to the size parser: the construction does not end on the
\* parser's exit or ValueError, the option stays the sentinel, and a DAV
\* collection that reads both values with free bytes left takes their sum as
\* the quota.
C17_ApiSentinelInAnyCase ==
  ( \A j \in DOMAIN ugr_config :
      /\ Configured(ugr_config[j])
      /\ ~MissingRequired(ugr_config[j])
      /\ \A v \in Restricted(ugr_config[j]) : ExactMember(ugr_config[j], v)
      /\ PlainQuota(ugr_config[j]) \/ ApiInAnyCase(ugr_config[j]) ) =>
    /\ raised.kind \notin {"SystemExit", "ValueError"}
    /\ pc # "get_endpoints" =>
         /\ Len(endpoints) = Len(ugr_config)
         /\ \A k \in DOMAIN ugr_config :
              ApiInAnyCase(ugr_config[k]) =>
                /\ endpoints[k].plugin_options[<<"quota">>].api
                /\ ( /\ k \in 1..Len(polled)
                     /\ endpoints[k].cls = "DAVStorageStats"
                     /\ Collectible(replies[k].answer)
                     /\ replies[k].answer.body.avail.n > 0 ) =>
                       endpoints[k].stats.quota =
                         replies[k].answer.body.used.n
                           + replies[k].answer.body.avail.n

\* C18: a sound share, whether or not its optional settings are all in the
\* configuration, whose collection raised neither error nor warning and
\* whose outputs did not fail has the status [OK][OK][200] after its turn.
C18_CleanShareEndsOK ==
  \A k \in 1..Len(polled) :
    ( /\ Sound(ugr_config[k])
      /\ CleanCollection(k)
      /\ CleanOutput(k) ) => endpoints[k].status = StatusOK

IsPrefix(earlier, later) ==
  /\ Len(earlier) <= Len(later)
  /\ SubSeq(later, 1, Len(earlier)) = earlier

\* C20: in every step of a run the debug list of every endpoint only grows:
\* the endpoint stays in the list and its debug list before the step is a
\* prefix of its debug list after it.
C20_DebugOnlyGrows ==
  [][\A k \in DOMAIN endpoints :
       /\ k \in DOMAIN endpoints'
       /\ IsPrefix(endpoints[k].debug, endpoints'[k].debug)]_vars

\* C20: an endpoint built with two warnings of the validation in debug has
\* been polled, its collection failed, and so did its upload and its read-back
C20_Witness ==
  /\ pc = "done"
  /\ options.output_memcached
  /\ options.output_stdout
  /\ \E k \in 1..Len(polled) :
       /\ ~replies[k].set_ok
       /\ ~replies[k].found
       /\ replies[k].answer.kind = "ConnectionError"
       /\ Len(endpoints[k].debug) = 5
       /\ endpoints[k].debug[1] = <<"WARN", "MissingOption", "000">>


(***************************************************************************)
(* get_storage_endpoints of configloader.py and format_StAR of xml.py.     *)
(* StorageEndpoint is a class of dynafed_storagestats.base, which is not   *)
(* among the sources: it follows the data model of the specification (the  *)
(* URL and the ordered list of member shares).  An XML element is the     *)
(* record of its tag and what it holds.                                    *)
(***************************************************************************)
MaxListed == 3     \* shares in the list handed to get_storage_endpoints

StorageEndpoint_init(url) == [url |-> url, storage_shares |-> << >>]

add_storage_share(endpoint, share) ==
  [endpoint EXCEPT !.storage_shares = Append(@, share)]

\* "_storage_share_object.id == storage_shares_mask or storage_shares_mask is True"
Masked(share, mask) == mask.is_true \/ share.id = mask.id

\* setdefault(url, []) and append, with the newest share put first
urls_dict_append_newest_first(_urls_dict, share) ==
  IF \E i \in DOMAIN _urls_dict : _urls_dict[i].url = share.uri.url
  THEN [i \in DOMAIN _urls_dict |->
          IF _urls_dict[i].url = share.uri.url
          THEN [_urls_dict[i] EXCEPT !.shares = << share >> \o @]
          ELSE _urls_dict[i]]
  ELSE << [url |-> share.uri.url, shares |-> << share >>] >> \o _urls_dict

\* _urls_dict.setdefault(url, []) and _urls_dict[url].append(share); the dict
\* is the sequence of its items in insertion order
urls_dict_append(_urls_dict, share) ==
  IF \E i \in DOMAIN _urls_dict : _urls_dict[i].url = share.uri.url
  THEN [i \in DOMAIN _urls_dict |->
          IF _urls_dict[i].url = share.uri.url
          THEN [_urls_dict[i] EXCEPT !.shares = Append(@, share)]
          ELSE _urls_dict[i]]
  ELSE Append(_urls_dict, [url |-> share.uri.url, shares |-> << share >>])

\* one turn of the first loop
urls_dict_turn(_urls_dict, share, mask) ==
  IF Masked(share, mask) THEN urls_dict_append(_urls_dict, share)
  ELSE _urls_dict

\* the first loop of get_storage_endpoints over the first k objects
RECURSIVE urls_dict(_, _, _)
urls_dict(storage_share_objects_, mask, k) ==
  IF k = 0 THEN << >>
  ELSE urls_dict_turn(urls_dict(storage_share_objects_, mask, k - 1),
                      storage_share_objects_[k], mask)

\* the inner loop: add_storage_share for the first k shares of a URL
RECURSIVE endpoint_with(_, _, _)
endpoint_with(url, shares, k) ==
  IF k = 0 THEN StorageEndpoint_init(url)
  ELSE add_storage_share(endpoint_with(url, shares, k - 1), shares[k])

\* the second loop: one StorageEndpoint per key of the dict, in its order
endpoints_of(_urls_dict) ==
  [i \in DOMAIN _urls_dict |->
     endpoint_with(_urls_dict[i].url, _urls_dict[i].shares,
                   Len(_urls_dict[i].shares))]

get_storage_endpoints(storage_share_objects_, mask) ==
  endpoints_of(urls_dict(storage_share_objects_, mask,
                         Len(storage_share_objects_)))

\* uri['hostname'] of a URL
Hostname == ("davs://h1/p" :> "h1") @@ ("davs://h2/p" :> "h2")

\* star_fields: 'storage_share' is the key S3StorageShare.__init__ writes;
\* format_StAR also reads 'storageshare', which a share may or may not have
StarFields ==
  { ("storage_share" :> ""),
    ("storage_share" :> "bucket"),
    ("storage_share" :> "bucket") @@ ("storageshare" :> "bucket") }

\* the share objects handed to get_storage_endpoints
ListedShares ==
  { [cls |-> "DAVStorageShare", id |-> i,
     uri |-> [url |-> u, hostname |-> Hostname[u]],
     star_fields |-> f,
     stats |-> [bytesused |-> 0, bytesfree |-> 0, filecount |-> 0,
                quota |-> DefaultQuota, starttime |-> 0, endtime |-> 0]] :
      i \in IDs, u \in URLs, f \in StarFields }

ShareLists ==
  { l \in UNION { [1..n -> ListedShares] : n \in 0..MaxListed } :
      \A j, k \in DOMAIN l : j # k => l[j].id # l[k].id }

\* the default True, or the ID of one share
Masks ==
  { [is_true |-> TRUE, id |-> << >>] } \cup
  { [is_true |-> FALSE, id |-> i] : i \in IDs }

Element(tag, text) == [tag |-> tag, text |-> text]

\* the sub-elements of one StorageUsageRecord, up to the first exception
StAR_record(share) ==
  IF share.star_fields["storage_share"] # ""
     /\ "storageshare" \notin DOMAIN share.star_fields
  THEN [raises |-> [kind |-> "KeyError"], rec |-> << >>]
  ELSE [raises |-> NoError,
        rec |->
          << Element("RecordIdentity", share.id) >> \o
          (IF share.star_fields["storage_share"] # ""
           THEN << Element("StorageShare", share.star_fields["storageshare"]) >>
           ELSE << >>) \o
          (IF share.uri.hostname # ""
           THEN << Element("StorageSystem", share.uri.hostname) >>
           ELSE << >>) \o
          << Element("StartTime", share.stats.starttime),
             Element("EndTime", share.stats.endtime) >> \o
          (IF share.stats.filecount # 0
           THEN << Element("FileCount", share.stats.filecount) >>
           ELSE << >>) \o
          << Element("ResourceCapacityUsed", share.stats.bytesused),
             Element("ResourceCapacityAllocated", share.stats.quota) >>]

\* the element "data" of a turn: created empty, and nothing is added to it
StAR_data == << >>

\* the end of a turn: rec was added to xmlroot; root[0] of data is copied
\* and appended as well, an IndexError when data has no child
StAR_turn(xmlroot, built) ==
  IF built.raises # NoError THEN [raises |-> built.raises, xmlroot |-> xmlroot]
  ELSE IF Len(StAR_data) = 0
  THEN [raises |-> [kind |-> "IndexError"],
        xmlroot |-> Append(xmlroot, built.rec)]
  ELSE [raises |-> NoError,
        xmlroot |-> Append(Append(xmlroot, built.rec), StAR_data[1])]

\* the turn for one share, unless an earlier one raised
StAR_next(before, share) ==
  IF before.raises # NoError THEN before
  ELSE StAR_turn(before.xmlroot, StAR_record(share))

\* the member shares of the endpoints, in the order the loops visit them
RECURSIVE Members(_)
Members(storage_endpoints_) ==
  IF storage_endpoints_ = << >> THEN << >>
  ELSE Head(storage_endpoints_).storage_shares \o Members(Tail(storage_endpoints_))

RECURSIVE StAR_loop(_, _)
StAR_loop(shares, k) ==
  IF k = 0 THEN [raises |-> NoError, xmlroot |-> << >>]
  ELSE StAR_next(StAR_loop(shares, k - 1), shares[k])

format_StAR(storage_endpoints_) ==
  StAR_loop(Members(storage_endpoints_), Len(Members(storage_endpoints_)))

InitAccounting ==
  /\ pc = "get_storage_endpoints"
  /\ raised = NoError
  /\ _storage_shares = << >>
  /\ config_files = 0
  /\ _config_file = 0
  /\ _line_number = 0
  /\ _id = << >>
  /\ _global_settings = EmptyDict
  /\ storage_share_objects \in ShareLists
  /\ lines_read = 0
  /\ total_read = 0
  /\ declared = {}
  /\ last_declared = << >>
  /\ local_lines = EmptyDict
  /\ global_lines = EmptyDict
  /\ all_matched = TRUE
  /\ CollectIdle
  /\ MainIdle
  /\ storage_shares_mask \in Masks
  /\ storage_endpoints = << >>
  /\ star = << >>

call_get_storage_endpoints ==
  /\ pc = "get_storage_endpoints"
  /\ storage_endpoints' =
       get_storage_endpoints(storage_share_objects, storage_shares_mask)
  /\ pc' = "format_StAR"
  /\ UNCHANGED << raised, _storage_shares, loaderVars, collectVars, mainVars,
                  storage_shares_mask, star >>

format_StAR_ends(r) ==
  /\ star' = r
  /\ raised' = r.raises
  /\ pc' = IF r.raises = NoError THEN "returned" ELSE "raised"

call_format_StAR ==
  /\ pc = "format_StAR"
  /\ format_StAR_ends(format_StAR(storage_endpoints))
  /\ UNCHANGED << _storage_shares, loaderVars, collectVars, mainVars,
                  storage_shares_mask, storage_endpoints >>

NextAccounting ==
  \/ call_get_storage_endpoints
  \/ call_format_StAR

SpecAccounting == InitAccounting /\ [][NextAccounting]_vars

EndpointsBuilt == pc \in {"format_StAR", "returned", "raised"}

\* where a share is in the list handed over
PositionOf(share) ==
  CHOOSE k \in DOMAIN storage_share_objects : storage_share_objects[k] = share

\* the position of the first share with that URL
FirstWith(url) ==
  CHOOSE k \in DOMAIN storage_share_objects :
    /\ storage_share_objects[k].uri.url = url
    /\ \A j \in 1..(k - 1) : storage_share_objects[j].uri.url # url

\* C21: with the mask True, once get_storage_endpoints has returned every
\* share of the list is a member of exactly one endpoint, the members of an
\* endpoint are the shares with its URL, no two endpoints have the same URL,
\* the endpoints are in the order in which their URLs first appear in the
\* list and the members of each are in their order in the list.
C21_EndpointsPartitionByURL ==
  (EndpointsBuilt /\ storage_shares_mask.is_true) =>
    /\ \A k \in DOMAIN storage_share_objects :
         Cardinality({ << e, j >> \in (DOMAIN storage_endpoints) \X (1..MaxListed) :
                         /\ j \in DOMAIN storage_endpoints[e].storage_shares
                         /\ storage_endpoints[e].storage_shares[j] =
                              storage_share_objects[k] }) = 1
    /\ \A e \in DOMAIN storage_endpoints :
         /\ storage_endpoints[e].storage_shares # << >>
         /\ \A j \in DOMAIN storage_endpoints[e].storage_shares :
              LET member == storage_endpoints[e].storage_shares[j]
              IN  /\ \E k \in DOMAIN storage_share_objects :
                       storage_share_objects[k] = member
                  /\ member.uri.url = storage_endpoints[e].url
         /\ \A i, j \in DOMAIN storage_endpoints[e].storage_shares :
              i < j => PositionOf(storage_endpoints[e].storage_shares[i])
                         < PositionOf(storage_endpoints[e].storage_shares[j])
    /\ \A d, e \in DOMAIN storage_endpoints :
         d < e => /\ storage_endpoints[d].url # storage_endpoints[e].url
                  /\ FirstWith(storage_endpoints[d].url)
                       < FirstWith(storage_endpoints[e].url)

\* C21: three shares, the first and the third with the same URL, were put
\* into two endpoints
C21_Witness ==
  /\ EndpointsBuilt
  /\ storage_shares_mask.is_true
  /\ Len(storage_share_objects) = 3
  /\ storage_share_objects[1].uri.url = storage_share_objects[3].uri.url
  /\ storage_share_objects[1].uri.url # storage_share_objects[2].uri.url
  /\ Len(storage_endpoints) = 2
  /\ Len(storage_endpoints[1].storage_shares) = 2

RequiredTags ==
  { "StorageSystem", "StartTime", "EndTime", "ResourceCapacityUsed" }

\* C23: format_StAR raises nothing, and the document it returns holds one
\* StorageUsageRecord for each member share of the endpoints, in the order of
\* the endpoints and of their members, each with StorageSystem, StartTime,
\* EndTime and ResourceCapacityUsed.
C23_OneRecordPerShare ==
  pc \in {"returned", "raised"} =>
    /\ raised = NoError
    /\ Len(star.xmlroot) = Len(Members(storage_endpoints))
    /\ \A k \in DOMAIN star.xmlroot :
         /\ star.xmlroot[k][1] =
              Element("RecordIdentity", Members(storage_endpoints)[k].id)
         /\ \A t \in RequiredTags :
              \E i \in DOMAIN star.xmlroot[k] : star.xmlroot[k][i].tag = t

(***************************************************************************)
(* The generic branch of S3StorageStats.get_storagestats on its own: an S3  *)
(* object the constructor built is asked for its stats, and the bucket      *)
(* holds the pages of sends, of which the loop reads as many as it asks     *)
(* for.                                                                     *)
(***************************************************************************)
\* the S3 objects of the constructor whose s3.api is generic
ListingShares ==
  { S3StorageStats_init([id |-> EndpointIDs[1],
                         plugin |-> "libugrlocplugin_s3.so",
                         scheme |-> "https", has_plugin_options |-> TRUE,
                         plugin_options |-> o]).self :
      o \in { p \in S3PluginOptions :
                /\ <<"s3", "api">> \in DOMAIN p
                /\ p[<<"s3", "api">>] = "generic" } }

\* what the bucket answers to the call for each page; the last one holds no
\* marker of a page that follows
ListingScripts ==
  { l \in SeqsUpTo(ListingCalls, MaxPages) :
      l # << >> /\ ~GoesOn(l[Len(l)]) }

InitListing ==
  /\ pc = "list_objects"
  /\ raised = NoError
  /\ _storage_shares = << >>
  /\ LoaderIdle
  /\ AccountingIdle
  /\ MainIdle
  /\ storage_share \in ListingShares
  /\ requests_sent = 0
  /\ reply \in { [call |-> "list_objects", sends |-> l] : l \in ListingScripts }
  /\ trusted_by = {}

S3_get_storagestats_ends(r, listed) ==
  /\ storage_share' = r.self
  /\ raised' = r.raises
  /\ requests_sent' = listed.requests
  /\ pc' = IF r.raises = NoError THEN "returned" ELSE "raised"

call_S3_get_storagestats ==
  /\ pc = "list_objects"
  /\ S3_get_storagestats_ends(
       S3StorageStats_get_storagestats(
         storage_share, [kind |-> "Listing", calls |-> reply.sends]),
       list_objects(reply.sends, 1, 0, 0))
  /\ UNCHANGED << reply, trusted_by, loaderVars, mainVars, accountingVars >>

NextListing == call_S3_get_storagestats

SpecListing == InitListing /\ [][NextListing]_vars

ListingOver ==
  /\ pc \in {"returned", "raised"}
  /\ reply # << >>
  /\ reply.call = "list_objects"

\* the sizes and the number of the objects on the first n pages
RECURSIVE FetchedBytes(_, _)
FetchedBytes(calls, n) ==
  IF n = 0 THEN 0
  ELSE FetchedBytes(calls, n - 1) + SumSizes(calls[n].sizes)

RECURSIVE FetchedFiles(_, _)
FetchedFiles(calls, n) ==
  IF n = 0 THEN 0
  ELSE FetchedFiles(calls, n - 1) + Len(calls[n].sizes)

\* C24: the generic listing asks for one page after the other, each call
\* after the first for the page the marker of the page before names, and the
\* page it stops at is the first that has no marker or no contents (or the
\* first call that fails).  When no call failed, bytesused is the sum of the
\* sizes of the objects on the pages fetched and files is their number.
C24_ListingFetchesEveryPage ==
  ListingOver =>
    /\ requests_sent \in DOMAIN reply.sends
    /\ \A i \in 1..(requests_sent - 1) : GoesOn(reply.sends[i])
    /\ ~GoesOn(reply.sends[requests_sent])
    /\ reply.sends[requests_sent].kind = "Page" =>
         /\ raised.kind \in {"none", "UGRStorageStatsQuotaWarning"}
         /\ storage_share.stats.bytesused =
              FetchedBytes(reply.sends, requests_sent)
         /\ storage_share.stats.files =
              FetchedFiles(reply.sends, requests_sent)

\* C24: a listing of two pages with objects on both ended normally
C24_Witness ==
  /\ ListingOver
  /\ pc = "returned"
  /\ requests_sent = 2
  /\ Len(reply.sends[1].sizes) = 2
  /\ Len(reply.sends[2].sizes) = 1
  /\ storage_share.stats.files = 3

(***************************************************************************)
(* get_endpoints on one share whose URL has any of the schemes and whose    *)
(* ssl_check is absent or any of the accepted texts, every other option     *)
(* being written out with an accepted value.                                *)
(***************************************************************************)
Schemes == { "dav", "davs", "s3", "http", "https" }

SslTexts == { "true", "yes", "false", "no" }

\* the dictionary d without the key option
Without(d, option) == [k \in DOMAIN d \ { option } |-> d[k]]

SchemeRecords(id) ==
  { [c EXCEPT !.scheme = scheme,
              !.plugin_options = s @@ Without(@, <<"ssl_check">>)] :
      c \in Companions(id), scheme \in Schemes,
      s \in Maybe(<<"ssl_check">>, SslTexts) }

InitScheme ==
  /\ pc = "get_endpoints"
  /\ raised = NoError
  /\ _storage_shares = << >>
  /\ LoaderIdle
  /\ AccountingIdle
  /\ CollectIdle
  /\ ParserIdle
  /\ ugr_config \in { << r >> : r \in SchemeRecords(EndpointIDs[1]) }
  /\ options \in [output_memcached : BOOLEAN, output_stdout : BOOLEAN]
  /\ endpoints = << >>
  /\ cursor = 0
  /\ polled = << >>
  /\ replies = << >>

NextScheme == get_endpoints

SpecScheme == InitScheme /\ [][NextScheme]_vars

\* the TLS check of a share as its configuration asks for it
TlsCheck(_ep) ==
  \/ <<"ssl_check">> \notin DOMAIN _ep.plugin_options
  \/ lower(_ep.plugin_options[<<"ssl_check">>]) \in { "true", "yes" }

\* the scheme a share of the record _ep is to have
Normalized(_ep) ==
  IF _ep.scheme = "dav" THEN "http"
  ELSE IF _ep.scheme = "davs" THEN "https"
  ELSE IF _ep.scheme = "s3" /\ _ep.plugin = "libugrlocplugin_s3.so"
  THEN IF TlsCheck(_ep) THEN "https" ELSE "http"
  ELSE _ep.scheme

\* C22: get_endpoints builds an object for every share, whatever the scheme of
\* its URL, and the object's scheme is http for dav, https for davs, for an
\* S3 share with the scheme s3 https when ssl_check is absent, 'true' or
\* 'yes' and http when it is 'false' or 'no', and the scheme of the URL
\* otherwise.
C22_SchemeNormalizedAtConstruction ==
  pc \in {"loop", "crash"} =>
    /\ raised = NoError
    /\ Len(endpoints) = Len(ugr_config)
    /\ \A k \in DOMAIN endpoints :
         endpoints[k].uri.scheme = Normalized(ugr_config[k])

====
